---- MODULE Spec2Model ----
(***************************************************************************)
(* Model of the broadify bridge native helpers:                            *)
(*   - the FrameBus shared-memory ring (framebus-addon.cc, framebus.h),    *)
(*   - the playback queue, the stdin ingestion loop and the completion     *)
(*     callback of decklink-helper.cpp.                                    *)
(*                                                                         *)
(* The module holds several specifications over one set of variables.      *)
(*   SpecRing   one writer handle and the readers of one channel, with     *)
(*              writeFrame, readLatest and the polling copy broken into    *)
(*              the steps that other processes can interleave with.        *)
(*   SpecPoll   SpecRing with a consumer that copies the latest slot and   *)
(*              then re-checks the sequence.                               *)
(*   SpecLife   create / open / write / read / close on one channel name.  *)
(*   SpecQueue  the FrameQueue class: push and pop.                        *)
(*   SpecPlay   the playback engine: ingestion tail, completion callback.  *)
(*   SpecStream the stdin ingestion loop over a byte stream.               *)
(*   SpecShutdown  the same loop on streams that hold a shutdown header.   *)
(* A variable that a specification does not use keeps its initial value.   *)
(***************************************************************************)
EXTENDS Integers, Sequences, FiniteSets, TLC

VARIABLES
  \* ---- SpecRing: the mapped FrameBusHeader fields and the slots
  slot_count,     \* header->slot_count
  seq,            \* header->seq
  last_write_ns,  \* header->last_write_ns
  slots,          \* slot index -> bytes of the slot
  \* WriterWriteFrame in progress
  wpc,            \* "idle", "copy", "ts", "publish"
  wbuf,           \* buffer_data (the frame passed to writeFrame)
  wts,            \* [has |-> has_timestamp, value |-> timestamp]
  current_seq,    \* local current_seq
  wchunk,         \* chunks of the memcpy already done
  \* ReaderReadLatest in progress and its last result
  rpc,            \* "idle", "loaded"
  rseq,           \* local seq
  rdResult,       \* [kind, slot, seq, ts, bytes]: what the last readLatest returned
  \* the polling consumer (load seq, memcpy the slot, then re-check)
  cpc,            \* "idle", "copy", "copied"
  cseq,           \* local seq
  cbuf,           \* frameBuffer being filled
  cchunk,         \* chunks of the memcpy already done
  lastSeq,        \* last sequence taken
  accepted,       \* [kind, seq, bytes]: the last copy the consumer kept
  discarded,      \* [kind, seq, bytes]: the last copy the consumer threw away
  \* history of the ring (not program state)
  hist,           \* frames passed to writeFrame, in call order
  copied,         \* slot index of each memcpy of the writer that completed, in order
  publishCount,   \* number of writeFrame calls that returned
  rdAt,           \* [quiet, count]: writer idle / publishCount during the last readLatest
  \* ---- SpecLife: the shared-memory name space and the handles
  nameObj,        \* the object linked under the channel name, 0 when there is none
  objs,           \* the backing objects created so far, each [size, hdr, slots] and
                  \* history: last (frame last written since the descriptor was
                  \* stored), freed (neither linked nor mapped any more)
  handles,        \* the FrameBusHandles created so far, each [st, is_writer, obj]
  lifeWrites,     \* number of writeFrame calls made
  lifeOp,         \* the last call: [op, h, seq, err, held, bytes]
  \* ---- SpecQueue, SpecPlay: PlaybackState and the sink
  state,          \* PlaybackState: started, prerollScheduled, nextFrameTime, queue,
                  \* lastFrame, hasLastFrame, completedFrames, lateFrames, droppedFrames
  sink,           \* the output: [scheduled, inFlight, playing, stopped, callback, lateCall]
  gShouldExit,    \* the process-wide stop flag
  ingest,         \* "running" while the ingestion loop runs, then "stopping", "done"
  pushed,         \* history: frames pushed into the queue, in order
  popCount,       \* history: number of successful pops
  lastPop,        \* history: [ok, out] of the last FrameQueue::pop
  tick,           \* history: what the last completion callback saw and did
  \* ---- SpecStream: the stdin pipe and the ingestion loop
  stream,         \* the bytes that arrive on stdin before it is closed
  pos,            \* number of bytes read from stdin so far
  exitReason,     \* "none" while the loop runs, then why it ended
  items,          \* history: the records the stream was built from, each [rec, start]
  iters,          \* history: one entry per loop iteration
  \* ---- SpecLegal: the pixel conversion helpers
  conv,           \* the last conversion call: [op, in, out]
  \* ---- SpecSetup: one helper process from its start to its exit
  proc,           \* [helper, pc, exit, ready, reader, env, cause]
  \* ---- SpecSource: what the polling loop of a helper has forwarded
  fwd,            \* [seqs: the sequences forwarded, poll: the last pass]
  \* ---- SpecCancel: the producer's end of the helper's standard input
  pipe,           \* [open: not yet closed, sent: records written so far]
  mutex           \* FrameQueue::mutex_: its owner, and each thread's place in
                  \* the queue operation it is making

ringVars == <<slot_count, seq, last_write_ns, slots, wpc, wbuf, wts, current_seq,
              wchunk, rpc, rseq, rdResult, cpc, cseq, cbuf, cchunk, lastSeq,
              accepted, discarded, hist, copied, publishCount, rdAt>>

lifeVars == <<nameObj, objs, handles, lifeWrites, lifeOp>>

playVars == <<state, sink, gShouldExit, ingest, pushed, popCount, lastPop, tick>>

streamVars == <<stream, pos, exitReason, items, iters>>

auxVars == <<conv, proc, fwd, pipe, mutex>>

vars == <<ringVars, lifeVars, playVars, streamVars, auxVars>>

\* What the actions of one specification leave alone.
notRing == <<lifeVars, playVars, streamVars, auxVars>>
notLife == <<ringVars, playVars, streamVars, auxVars>>
notPlay == <<ringVars, lifeVars, streamVars, auxVars>>
notStream == <<ringVars, lifeVars, auxVars>>
notAux == <<ringVars, lifeVars, playVars, streamVars>>

-----------------------------------------------------------------------------
(* Bounds of the model *)

MaxSlots == 3      \* slot counts tried: those CreateWriter accepts up to this
MaxWrites == 4     \* writeFrame calls per behaviour
CopyChunks == 2    \* pieces in which a memcpy of one frame becomes visible
MaxObjs == 2       \* backing objects created per behaviour
MaxHandles == 3    \* handles created per behaviour
MaxLifeWrites == 2 \* writeFrame calls per behaviour of SpecLife
MaxPushes == 6     \* frames pushed into the playback queue per behaviour
MaxIngest == 4     \* frames ingested per behaviour of SpecPlay
MaxCompletions == 2 \* completion notifications per behaviour
MaxItems == 3      \* records in the stdin stream

(* Program constants *)

FRAMEBUS_HEADER_SIZE == 128
FRAMEBUS_MAGIC_LE == 1179079234
FRAMEBUS_VERSION == 1
FRAMEBUS_PIXELFORMAT_RGBA8 == 1
kFrameMagic == 1112689478
kFrameVersion == 1
kFrameTypeFrame == 1
kFrameTypeShutdown == 2
kFrameHeaderSize == 28
kMaxQueuedFrames == 4
kLegalMin == 16
kLegalMax == 235
kFullRange == 255
kLegalRange == kLegalMax - kLegalMin
kDiscardBufferSize == 4096
prerollTarget == 3
BytesPerPixel == 4

-----------------------------------------------------------------------------
(* Values *)

\* Byte values that fill the frames passed to writeFrame, and the byte that
\* fills memory left over from an earlier use of the backing object.
Pixels == {17, 42}
LeftOver == {0, 99}

Min(a, b) == IF a < b THEN a ELSE b

\* Geometry of the modelled channel: one pixel.
Geometry == [width |-> 1, height |-> 1, fps |-> 50]

\* CreateWriter: frame_size_64 = width * height * 4
FrameSizeOf(w, h) == w * h * BytesPerPixel

frame_size == FrameSizeOf(Geometry.width, Geometry.height)

\* A frame whose bytes all have value v.
UniformFrame(v) == [i \in 1..frame_size |-> v]

Frames == {UniformFrame(v) : v \in Pixels}

NoResult == [kind |-> "none", slot |-> 0, seq |-> 0, ts |-> 0, bytes |-> UniformFrame(0)]
NullResult == [kind |-> "null", slot |-> 0, seq |-> 0, ts |-> 0, bytes |-> UniformFrame(0)]
NoCopy == [kind |-> "none", seq |-> 0, bytes |-> UniformFrame(0)]

\* Bytes i..j of a memcpy done in CopyChunks pieces: piece c.
ChunkLo(c) == ((c - 1) * frame_size) \div CopyChunks + 1
ChunkHi(c) == (c * frame_size) \div CopyChunks

\* dst after piece c of memcpy(dst, src, frame_size)
CopyChunk(dst, src, c) ==
  [i \in 1..frame_size |-> IF ChunkLo(c) <= i /\ i <= ChunkHi(c) THEN src[i] ELSE dst[i]]

-----------------------------------------------------------------------------
(* framebus-addon.cc: the pure parts *)

\* CreateWriter rejects slotCount < 2.
ValidSlotCount_AllowOne(n) == n >= 1
ValidSlotCount(n) == n >= 2

\* WriterWriteFrame: slot_index = slot_count > 0 ? current_seq % slot_count : 0
WriteSlotIndex_Latest(s, n) == IF n > 0 THEN (s + n - 1) % n ELSE 0
\* A writer that uses the first slot for every frame.
WriteSlotIndex_First(s, n) == 0
WriteSlotIndex(s, n) == IF n > 0 THEN s % n ELSE 0

\* ReaderReadLatest: slot_index = (seq - 1) % slot_count   (seq >= 1 here)
ReadSlotIndex_NoMinusOne(s, n) == s % n
ReadSlotIndex(s, n) == (s - 1) % n

\* ReaderReadLatest: seq == 0 || slot_count == 0 gives null
NoFrameYet_Never(s, n) == FALSE
NoFrameYet(s, n) == s = 0 \/ n = 0

\* WriterWriteFrame: the value stored by AtomicStore64(&seq, current_seq + 1).
\* The counter is 64 bits wide; MaxWrites keeps it far from wrapping.
NextSeq(s) == s + 1

-----------------------------------------------------------------------------
(* SpecRing: one channel, one writer, readers in other processes.          *)
(* Acquire loads and release stores of seq and last_write_ns are single    *)
(* steps; a memcpy is CopyChunks steps.                                    *)

\* The state after CreateWriter returned: header initialised, seq = 0.
\* The slots of a fresh object are zero; an object left over under the same
\* name keeps its bytes, so any content is possible.
RingStart ==
  /\ slot_count \in {n \in 1..MaxSlots : ValidSlotCount(n)}
  /\ seq = 0
  /\ last_write_ns = 0
  /\ \E fill \in LeftOver : slots = [i \in 0..(slot_count - 1) |-> UniformFrame(fill)]
  /\ wpc = "idle"
  /\ wbuf = UniformFrame(0)
  /\ wts = [has |-> FALSE, value |-> 0]
  /\ current_seq = 0
  /\ wchunk = 0
  /\ rpc = "idle"
  /\ rseq = 0
  /\ rdResult = NoResult
  /\ cpc = "idle"
  /\ cseq = 0
  /\ cbuf = UniformFrame(0)
  /\ cchunk = 0
  /\ lastSeq = 0
  /\ accepted = NoCopy
  /\ discarded = NoCopy
  /\ hist = <<>>
  /\ copied = <<>>
  /\ publishCount = 0
  /\ rdAt = [quiet |-> TRUE, count |-> 0]

\* The ring variables in a specification that does not use them.
RingUnused ==
  /\ slot_count = 2
  /\ seq = 0
  /\ last_write_ns = 0
  /\ slots = [i \in 0..1 |-> UniformFrame(0)]
  /\ wpc = "idle"
  /\ wbuf = UniformFrame(0)
  /\ wts = [has |-> FALSE, value |-> 0]
  /\ current_seq = 0
  /\ wchunk = 0
  /\ rpc = "idle"
  /\ rseq = 0
  /\ rdResult = NoResult
  /\ cpc = "idle"
  /\ cseq = 0
  /\ cbuf = UniformFrame(0)
  /\ cchunk = 0
  /\ lastSeq = 0
  /\ accepted = NoCopy
  /\ discarded = NoCopy
  /\ hist = <<>>
  /\ copied = <<>>
  /\ publishCount = 0
  /\ rdAt = [quiet |-> TRUE, count |-> 0]

\* No call made yet.
NoLifeOp ==
  [op |-> "none", h |-> 0, seq |-> 0, err |-> "none", held |-> {}, bytes |-> <<>>]

\* No object, no handle: the state before the first createWriter.
LifeStart ==
  /\ nameObj = 0
  /\ objs = <<>>
  /\ handles = <<>>
  /\ lifeWrites = 0
  /\ lifeOp = NoLifeOp

\* PlaybackState as runPlayback sets it up, before the first frame.
\* frameDuration is what the selected display mode reports (not 0).
PlaybackStateInit ==
  [started |-> FALSE, prerollScheduled |-> 0, nextFrameTime |-> 0,
   frameDuration |-> 1001, queue |-> <<>>, lastFrame |-> <<>>,
   hasLastFrame |-> FALSE, completedFrames |-> 0, lateFrames |-> 0,
   droppedFrames |-> 0]

\* The sink after SetScheduledFrameCompletionCallback(callback): nothing
\* scheduled, not playing.
SinkInit ==
  [scheduled |-> <<>>, inFlight |-> 0, playing |-> FALSE, stopped |-> FALSE,
   callback |-> TRUE, lateCall |-> FALSE]

NoTick ==
  [n |-> 0, running |-> FALSE, wasEmpty |-> FALSE, hadLast |-> FALSE,
   lastBefore |-> <<>>, passed |-> <<>>, outcome |-> "none", ok |-> FALSE,
   submitted |-> <<>>, lastAfter |-> <<>>, result |-> "none"]

PlayStart ==
  /\ state = PlaybackStateInit
  /\ sink = SinkInit
  /\ gShouldExit = FALSE
  /\ ingest = "running"
  /\ pushed = <<>>
  /\ popCount = 0
  /\ lastPop = [ok |-> FALSE, out |-> <<>>]
  /\ tick = NoTick

\* No stream: the specifications that do not run the stdin loop.
StreamUnused ==
  /\ stream = <<>>
  /\ pos = 0
  /\ exitReason = "none"
  /\ items = <<>>
  /\ iters = <<>>

\* No conversion call made.
NoConv == [op |-> "none", in |-> 0, out |-> 0]
\* No helper process.
NoEnv ==
  [config |-> TRUE, device |-> TRUE, mode |-> TRUE, conn |-> TRUE,
   configure |-> TRUE, enable |-> TRUE, sdl |-> TRUE]
NoProc ==
  [helper |-> "none", pc |-> "none", exit |-> 0, ready |-> FALSE,
   reader |-> "none", env |-> NoEnv, cause |-> "none"]
\* Nothing forwarded, no pass of the polling loop made.
NoFwd == [seqs |-> <<>>, poll |-> "none"]
\* Standard input closed with nothing written to it.
NoPipe == [open |-> FALSE, sent |-> 0]
\* The threads that use the playback queue: the ingestion thread pushes and
\* pops during preroll, the sink's callback thread pops.
Threads == {"ingestion", "completion"}
\* The queue's mutex unlocked and no queue operation under way.
NoMutex ==
  [owner |-> "none", pc |-> [t \in Threads |-> "idle"], arg |-> <<>>,
   out |-> [t \in Threads |-> <<>>], outId |-> [t \in Threads |-> 0],
   ids |-> <<>>, popped |-> <<>>, evicted |-> <<>>]
AuxUnused ==
  conv = NoConv /\ proc = NoProc /\ fwd = NoFwd /\ pipe = NoPipe /\ mutex = NoMutex

InitRing == RingStart /\ LifeStart /\ PlayStart /\ StreamUnused /\ AuxUnused

writerVars == <<wpc, wbuf, wts, current_seq, wchunk>>
readerVars == <<rpc, rseq, rdResult, rdAt>>
consumerVars == <<cpc, cseq, cbuf, cchunk, lastSeq, accepted, discarded>>
headerVars == <<slot_count, seq, last_write_ns, slots>>
histVars == <<hist, copied, publishCount>>

\* writeFrame(buffer, timestamp?) up to the load of seq (lines 192-228).
\* A buffer of another length throws before anything is touched.
WriterLoadSeq_PublishFirst(frame, has_timestamp) ==
  /\ wpc = "idle"
  /\ Len(hist) < MaxWrites
  /\ Len(frame) = frame_size
  /\ wbuf' = frame
  /\ wts' = [has |-> has_timestamp, value |-> Len(hist) + 1]
  /\ current_seq' = seq
  /\ seq' = NextSeq(seq)
  /\ wchunk' = 0
  /\ wpc' = "copy"
  /\ hist' = Append(hist, frame)
  /\ UNCHANGED <<slot_count, last_write_ns, slots, copied, publishCount>>
  /\ UNCHANGED <<readerVars, consumerVars, notRing>>

WriterLoadSeq(frame, has_timestamp) ==
  /\ wpc = "idle"
  /\ Len(hist) < MaxWrites
  /\ Len(frame) = frame_size
  /\ wbuf' = frame
  /\ wts' = [has |-> has_timestamp, value |-> Len(hist) + 1]
  /\ current_seq' = seq
  /\ wchunk' = 0
  /\ wpc' = "copy"
  /\ hist' = Append(hist, frame)
  /\ UNCHANGED <<slot_count, seq, last_write_ns, slots, copied, publishCount>>
  /\ UNCHANGED <<readerVars, consumerVars, notRing>>

\* memcpy(slot_ptr, buffer_data, buffer_length), one piece (line 234)
WriterCopy ==
  /\ wpc = "copy"
  /\ LET idx == WriteSlotIndex(current_seq, slot_count)
         c == wchunk + 1
     IN /\ slots' = [slots EXCEPT ![idx] = CopyChunk(slots[idx], wbuf, c)]
        /\ wchunk' = c
        /\ IF c = CopyChunks
             THEN /\ wpc' = IF wts.has THEN "ts" ELSE "publish"
                  /\ copied' = Append(copied, idx)
             ELSE /\ wpc' = "copy"
                  /\ copied' = copied
  /\ UNCHANGED <<slot_count, seq, last_write_ns, wbuf, wts, current_seq, hist,
                 publishCount>>
  /\ UNCHANGED <<readerVars, consumerVars, notRing>>

\* A writer that takes the timestamp and does not store it.
WriterStoreTimestamp_Skip ==
  /\ wpc = "ts"
  /\ wpc' = "publish"
  /\ UNCHANGED <<slot_count, seq, last_write_ns, slots, wbuf, wts, current_seq,
                 wchunk, hist, copied, publishCount>>
  /\ UNCHANGED <<readerVars, consumerVars, notRing>>

\* if (has_timestamp) AtomicStore64(&last_write_ns, timestamp)  (lines 235-237)
WriterStoreTimestamp ==
  /\ wpc = "ts"
  /\ last_write_ns' = wts.value
  /\ wpc' = "publish"
  /\ UNCHANGED <<slot_count, seq, slots, wbuf, wts, current_seq, wchunk, hist,
                 copied, publishCount>>
  /\ UNCHANGED <<readerVars, consumerVars, notRing>>

\* AtomicStore64(&seq, current_seq + 1); return  (lines 238-240)
WriterPublish ==
  /\ wpc = "publish"
  /\ seq' = NextSeq(current_seq)
  /\ wpc' = "idle"
  /\ publishCount' = publishCount + 1
  /\ UNCHANGED <<slot_count, last_write_ns, slots, wbuf, wts, current_seq, wchunk,
                 hist, copied>>
  /\ UNCHANGED <<readerVars, consumerVars, notRing>>

\* readLatest: seq = AtomicLoad64(&header->seq)  (line 253)
ReaderLoadSeq ==
  /\ rpc = "idle"
  /\ rseq' = seq
  /\ rpc' = "loaded"
  /\ rdAt' = [quiet |-> wpc = "idle", count |-> publishCount]
  /\ UNCHANGED rdResult
  /\ UNCHANGED <<headerVars, histVars, writerVars, consumerVars, notRing>>

\* A readLatest that marks the frame it returns as taken by storing 0 in seq.
ReaderReturn_Consume ==
  /\ rpc = "loaded"
  /\ rdResult' =
       IF NoFrameYet(rseq, slot_count)
         THEN NullResult
         ELSE [kind |-> "frame",
               slot |-> ReadSlotIndex(rseq, slot_count),
               seq |-> rseq,
               ts |-> last_write_ns,
               bytes |-> slots[ReadSlotIndex(rseq, slot_count)]]
  /\ seq' = 0
  /\ rpc' = "idle"
  /\ rdAt' = [rdAt EXCEPT !.quiet = rdAt.quiet /\ wpc = "idle"
                                    /\ publishCount = rdAt.count]
  /\ UNCHANGED rseq
  /\ UNCHANGED <<slot_count, last_write_ns, slots>>
  /\ UNCHANGED <<histVars, writerVars, consumerVars, notRing>>

\* readLatest: null, or the view of the slot with the timestamp loaded now
\* and the sequence loaded before (lines 254-279).  bytes is what the view
\* shows when the call returns.
ReaderReturn ==
  /\ rpc = "loaded"
  /\ rdResult' =
       IF NoFrameYet(rseq, slot_count)
         THEN NullResult
         ELSE [kind |-> "frame",
               slot |-> ReadSlotIndex(rseq, slot_count),
               seq |-> rseq,
               ts |-> last_write_ns,
               bytes |-> slots[ReadSlotIndex(rseq, slot_count)]]
  /\ rpc' = "idle"
  /\ rdAt' = [rdAt EXCEPT !.quiet = rdAt.quiet /\ wpc = "idle"
                                    /\ publishCount = rdAt.count]
  /\ UNCHANGED rseq
  /\ UNCHANGED <<headerVars, histVars, writerVars, consumerVars, notRing>>

\* The polling loop of a consumer (decklink-helper runPlayback, display-helper
\* main): seq = atomicLoad64(&header->seq); if it is 0 or lastSeq, sleep and
\* poll again; else lastSeq = seq and start the memcpy of the slot.
ConsumerLoadSeq ==
  /\ cpc = "idle"
  /\ seq # 0 /\ seq # lastSeq
  /\ cseq' = seq
  /\ lastSeq' = seq
  /\ cbuf' = UniformFrame(0)
  /\ cchunk' = 0
  /\ cpc' = "copy"
  /\ UNCHANGED <<accepted, discarded>>
  /\ UNCHANGED <<headerVars, histVars, writerVars, readerVars, notRing>>

\* memcpy(frameBuffer.data(), slotPtr, frameBuffer.size()), one piece
ConsumerCopy ==
  /\ cpc = "copy"
  /\ LET idx == ReadSlotIndex(cseq, slot_count)
         c == cchunk + 1
     IN /\ cbuf' = CopyChunk(cbuf, slots[idx], c)
        /\ cchunk' = c
        /\ cpc' = IF c = CopyChunks THEN "copied" ELSE "copy"
  /\ UNCHANGED <<cseq, lastSeq, accepted, discarded>>
  /\ UNCHANGED <<headerVars, histVars, writerVars, readerVars, notRing>>

\* The consumer's obligation: load seq again and keep the copy only when it
\* is still the sequence the copy was started for.
ConsumerRecheck ==
  /\ cpc = "copied"
  /\ IF seq = cseq
       THEN /\ accepted' = [kind |-> "copy", seq |-> cseq, bytes |-> cbuf]
            /\ UNCHANGED discarded
       ELSE /\ discarded' = [kind |-> "copy", seq |-> cseq, bytes |-> cbuf]
            /\ UNCHANGED accepted
  /\ cpc' = "idle"
  /\ UNCHANGED <<cseq, cbuf, cchunk, lastSeq>>
  /\ UNCHANGED <<headerVars, histVars, writerVars, readerVars, notRing>>

WriteFrameCall ==
  \E frame \in Frames, has_timestamp \in BOOLEAN : WriterLoadSeq(frame, has_timestamp)

NextRing ==
  \/ WriteFrameCall
  \/ WriterCopy
  \/ WriterStoreTimestamp
  \/ WriterPublish
  \/ ReaderLoadSeq
  \/ ReaderReturn

SpecRing == InitRing /\ [][NextRing]_vars

NextPoll ==
  \/ WriteFrameCall
  \/ WriterCopy
  \/ WriterStoreTimestamp
  \/ WriterPublish
  \/ ConsumerLoadSeq
  \/ ConsumerCopy
  \/ ConsumerRecheck

SpecPoll == InitRing /\ [][NextPoll]_vars

-----------------------------------------------------------------------------
(* SpecLife: createWriter, openReader, writeFrame, readLatest and close on *)
(* one channel name.  Every call is one step.  A backing object lives as   *)
(* long as it is linked under the name or mapped by a handle.              *)

\* The memory of a backing object: the descriptor and the slots that fit.
ZeroHeader ==
  [magic |-> 0, version |-> 0, header_size |-> 0, width |-> 0, height |-> 0,
   fps |-> 0, pixel_format |-> 0, frame_size |-> 0, slot_count |-> 0,
   slot_stride |-> 0, seq |-> 0, last_write_ns |-> 0]

\* CreateWriter: total_size = FRAMEBUS_HEADER_SIZE + slot_stride * slot_count
TotalSize(stride, n) == FRAMEBUS_HEADER_SIZE + stride * n

\* ftruncate(fd, total_size) on slots of an object: bytes inside the new size
\* are kept, bytes added are zero.
Truncate(old, n) ==
  [i \in 0..(n - 1) |-> IF i \in DOMAIN old THEN old[i] ELSE UniformFrame(0)]

\* CreateWriter: the descriptor fields stored after the mapping (lines 374-388).
\* seq and last_write_ns are stored as 0 whatever the object held.
InitHeader(n) ==
  [magic |-> FRAMEBUS_MAGIC_LE, version |-> FRAMEBUS_VERSION,
   header_size |-> FRAMEBUS_HEADER_SIZE,
   width |-> Geometry.width, height |-> Geometry.height, fps |-> Geometry.fps,
   pixel_format |-> FRAMEBUS_PIXELFORMAT_RGBA8,
   frame_size |-> frame_size, slot_count |-> n, slot_stride |-> frame_size,
   seq |-> 0, last_write_ns |-> 0]

\* createWriter({name, ..., slotCount: n}).  shm_open(O_CREAT | O_RDWR) opens
\* the object linked under the name when there is one and creates one when
\* there is none.
CreateWriter(n) ==
  /\ Len(handles) < MaxHandles
  /\ ValidSlotCount(n)
  /\ nameObj # 0 \/ Len(objs) < MaxObjs
  /\ LET o == IF nameObj # 0 THEN nameObj ELSE Len(objs) + 1
         oldSlots == IF nameObj # 0 THEN objs[o].slots ELSE <<>>
         obj == [size |-> TotalSize(frame_size, n),
                 hdr |-> InitHeader(n),
                 slots |-> Truncate(oldSlots, n),
                 last |-> <<>>, freed |-> FALSE]
     IN /\ objs' = IF nameObj # 0 THEN [objs EXCEPT ![o] = obj] ELSE Append(objs, obj)
        /\ nameObj' = o
        /\ handles' = Append(handles, [st |-> "open", is_writer |-> TRUE, obj |-> o])
        /\ lifeOp' = [op |-> "createWriter", h |-> Len(handles) + 1, seq |-> 0,
                      err |-> "none", held |-> {"fd", "map"}, bytes |-> <<>>]
  /\ UNCHANGED lifeWrites
  /\ UNCHANGED notLife

\* OpenReader: the checks made on the mapped descriptor (line 476).
HeaderAccepted_Any(hdr) == TRUE
HeaderAccepted(hdr) ==
  hdr.magic = FRAMEBUS_MAGIC_LE /\ hdr.header_size = FRAMEBUS_HEADER_SIZE

\* What fstat and mmap do in one open: both succeed, or one of them fails.
SysOutcomes == {"ok", "fstat", "mmap"}

\* The steps of OpenReader from shm_open to the descriptor check (lines
\* 452-480).  o is the object linked under the name (0: none).  held is
\* what the call still holds when it returns: the descriptor and the
\* mapping it acquired, less what it closed or unmapped on the way out.
OpenAttempt(o, objects, sys) ==
  IF o = 0
    THEN [ok |-> FALSE, err |-> "open", held |-> {}]
    ELSE IF sys = "fstat"
      THEN [ok |-> FALSE, err |-> "fstat", held |-> {"fd"} \ {"fd"}]
      ELSE IF objects[o].size < FRAMEBUS_HEADER_SIZE
        THEN [ok |-> FALSE, err |-> "tooSmall", held |-> {"fd"} \ {"fd"}]
        ELSE IF sys = "mmap"
          THEN [ok |-> FALSE, err |-> "mmap", held |-> {"fd"} \ {"fd"}]
          ELSE IF ~HeaderAccepted(objects[o].hdr)
            THEN [ok |-> FALSE, err |-> "invalid",
                  held |-> {"fd", "map"} \ {"map", "fd"}]
            ELSE [ok |-> TRUE, err |-> "none", held |-> {"fd", "map"}]

\* openReader({name}): a reader handle when the open succeeds, an exception
\* and no handle otherwise.
OpenReader(sys) ==
  /\ Len(handles) < MaxHandles
  /\ \E r \in {OpenAttempt(nameObj, objs, sys)} :
       IF r.ok
         THEN /\ handles' = Append(handles, [st |-> "open", is_writer |-> FALSE,
                                             obj |-> nameObj])
              /\ lifeOp' = [op |-> "openReader", h |-> Len(handles) + 1,
                            seq |-> objs[nameObj].hdr.seq,
                            err |-> r.err, held |-> r.held, bytes |-> <<>>]
         ELSE /\ handles' = handles
              /\ lifeOp' = [op |-> "openFailed", h |-> 0, seq |-> 0,
                            err |-> r.err, held |-> r.held, bytes |-> <<>>]
  /\ UNCHANGED <<nameObj, objs, lifeWrites>>
  /\ UNCHANGED notLife

WriterWriteFrame_AnyLength(h, frame, has_timestamp) ==
  /\ h \in DOMAIN handles
  /\ handles[h].st = "open" /\ handles[h].is_writer
  /\ lifeWrites < MaxLifeWrites
  /\ LET o == handles[h].obj
         hdr == objs[o].hdr
         idx == WriteSlotIndex(hdr.seq, hdr.slot_count)
     IN /\ objs' = [objs EXCEPT
                      ![o].slots[idx] = frame,
                      ![o].hdr.last_write_ns =
                         IF has_timestamp THEN lifeWrites + 1 ELSE @,
                      ![o].hdr.seq = NextSeq(hdr.seq),
                      ![o].last = frame]
        /\ lifeOp' = [op |-> "writeFrame", h |-> h, seq |-> hdr.seq,
                      err |-> "none", held |-> {}, bytes |-> <<>>]
  /\ lifeWrites' = lifeWrites + 1
  /\ UNCHANGED <<nameObj, handles>>
  /\ UNCHANGED notLife

\* writer.writeFrame(frame, timestamp?) on an open writer handle, as one step.
WriterWriteFrame(h, frame, has_timestamp) ==
  /\ h \in DOMAIN handles
  /\ handles[h].st = "open" /\ handles[h].is_writer
  /\ lifeWrites < MaxLifeWrites
  /\ LET o == handles[h].obj
         hdr == objs[o].hdr
         idx == WriteSlotIndex(hdr.seq, hdr.slot_count)
     IN IF Len(frame) # hdr.frame_size
          THEN /\ objs' = objs
               /\ lifeOp' = [op |-> "writeFailed", h |-> h, seq |-> hdr.seq,
                             err |-> "size", held |-> {}, bytes |-> <<>>]
          ELSE /\ objs' = [objs EXCEPT
                             ![o].slots[idx] = frame,
                             ![o].hdr.last_write_ns =
                                IF has_timestamp THEN lifeWrites + 1 ELSE @,
                             ![o].hdr.seq = NextSeq(hdr.seq),
                             ![o].last = frame]
               /\ lifeOp' = [op |-> "writeFrame", h |-> h, seq |-> hdr.seq,
                             err |-> "none", held |-> {}, bytes |-> <<>>]
  /\ lifeWrites' = lifeWrites + 1
  /\ UNCHANGED <<nameObj, handles>>
  /\ UNCHANGED notLife

\* What readLatest returns from a mapped object: null, or the bytes of
\* slot (seq - 1) % slot_count (lines 253-261).
ReadLatestBytes(obj) ==
  IF NoFrameYet(obj.hdr.seq, obj.hdr.slot_count)
    THEN <<>>
    ELSE obj.slots[ReadSlotIndex(obj.hdr.seq, obj.hdr.slot_count)]

\* reader.readLatest() on an open reader handle, as one step.
ReaderReadLatest(h) ==
  /\ h \in DOMAIN handles
  /\ handles[h].st = "open" /\ ~handles[h].is_writer
  /\ lifeOp.op # "readLatest" \/ lifeOp.h # h
  /\ lifeOp' = [op |-> "readLatest", h |-> h, seq |-> objs[handles[h].obj].hdr.seq,
                err |-> "none", held |-> {},
                bytes |-> ReadLatestBytes(objs[handles[h].obj])]
  /\ UNCHANGED <<nameObj, objs, handles, lifeWrites>>
  /\ UNCHANGED notLife

\* FinalizeHandle: shm_unlink for a writer handle only (line 166).
Unlinks_Always(handle) == TRUE
Unlinks(handle) == handle.is_writer

\* The object o once the name points at linked and the handles are hs: the
\* system frees it when it is neither linked nor mapped by an open handle.
Reclaim(obj, o, linked, hs) ==
  IF linked # o /\ \A k \in DOMAIN hs : hs[k].st = "open" => hs[k].obj # o
    THEN [obj EXCEPT !.freed = TRUE]
    ELSE obj

\* close() of an open handle: FinalizeHandle unmaps, closes the descriptor
\* and, for a writer, unlinks the name.
Close(h) ==
  /\ h \in DOMAIN handles
  /\ handles[h].st = "open"
  /\ handles' = [handles EXCEPT ![h].st = "closed"]
  /\ nameObj' = IF Unlinks(handles[h]) THEN 0 ELSE nameObj
  /\ objs' = [o \in DOMAIN objs |-> Reclaim(objs[o], o, nameObj', handles')]
  /\ lifeOp' = [op |-> "close", h |-> h, seq |-> 0, err |-> "none", held |-> {},
                bytes |-> <<>>]
  /\ UNCHANGED lifeWrites
  /\ UNCHANGED notLife

InitLife == LifeStart /\ RingUnused /\ PlayStart /\ StreamUnused /\ AuxUnused

\* Arguments tried: slot counts below and above the limit, and a buffer
\* that is shorter than a frame.
LifeSlotCounts == {1, 2, 3}
LifeFrames == Frames \cup {<<17>>}

NextLife ==
  \/ \E n \in LifeSlotCounts : CreateWriter(n)
  \/ OpenReader("ok")
  \/ \E h \in 1..MaxHandles, frame \in LifeFrames, has_timestamp \in BOOLEAN :
       WriterWriteFrame(h, frame, has_timestamp)
  \/ \E h \in 1..MaxHandles : ReaderReadLatest(h)
  \/ \E h \in 1..MaxHandles : Close(h)

SpecLife == InitLife /\ [][NextLife]_vars

\* The sequence an attached reader h would load now.
ObservedSeq(h) == objs[handles[h].obj].hdr.seq

\* C5: over createWriter, writeFrame, readLatest, close and openReader on a
\* channel name, the sequence seen by a reader that stays attached never
\* decreases, and a successful writeFrame adds exactly 1 to it.
C5_SeqMonotonic ==
  [][ /\ \A h \in DOMAIN handles :
           (handles[h].st = "open" /\ ~handles[h].is_writer /\ handles'[h].st = "open")
             => objs'[handles'[h].obj].hdr.seq >= ObservedSeq(h)
      /\ lifeOp'.op = "writeFrame"
           => objs'[handles[lifeOp'.h].obj].hdr.seq
                = objs[handles[lifeOp'.h].obj].hdr.seq + 1
    ]_vars

-----------------------------------------------------------------------------
(* Claims about the ring *)

\* The most recent frame number <= s that is stored in slot i, or 0.
LatestInSlot(i, s, n) ==
  LET ks == {k \in 1..s : (k - 1) % n = i}
  IN IF ks = {} THEN 0 ELSE CHOOSE k \in ks : \A j \in ks : j <= k

\* C1: a readLatest that runs while no write is in progress, after k >= 1
\* writeFrame calls have returned, returns the bytes of the k-th frame and
\* sequence k.
C1_ReadAfterWrite ==
  (rpc = "idle" /\ rdResult.kind # "none" /\ rdAt.quiet /\ rdAt.count >= 1)
    => /\ rdResult.kind = "frame"
       /\ rdResult.seq = rdAt.count
       /\ rdResult.bytes = hist[rdAt.count]

C1_Witness ==
  /\ rpc = "idle" /\ rdResult.kind = "frame" /\ rdAt.quiet
  /\ rdAt.count >= 2
  /\ hist[rdAt.count] # hist[rdAt.count - 1]

\* C2: whatever sequence S >= 1 is in the header, or was loaded by a reader,
\* the writer's copy number S has completed, and it went to slot
\* (S-1) mod slot_count: the sequence is never published ahead of the copy.
C2_PublishAfterCopy ==
  \A S \in {seq, rseq, cseq} :
    S >= 1 => /\ Len(copied) >= S
              /\ copied[S] = (S - 1) % slot_count

C2_Witness ==
  /\ rpc = "loaded" /\ rseq >= 1
  /\ wpc = "copy" /\ wchunk >= 1

\* C3: with no write in progress and sequence S >= 1, every slot holds the
\* most recent frame stored in it, slot (S-1) mod N holds frame S, and a
\* readLatest made then returns frame S from that slot.
C3_Wraparound ==
  (wpc = "idle" /\ seq >= 1)
    => /\ slots[(seq - 1) % slot_count] = hist[seq]
       /\ \A i \in 0..(slot_count - 1) :
            LatestInSlot(i, seq, slot_count) # 0
              => slots[i] = hist[LatestInSlot(i, seq, slot_count)]
       /\ (rpc = "idle" /\ rdResult.kind = "frame" /\ rdAt.quiet /\ rdAt.count = seq)
            => /\ rdResult.slot = (seq - 1) % slot_count
               /\ rdResult.bytes = hist[seq]

C3_Witness ==
  /\ wpc = "idle" /\ seq >= slot_count + 1
  /\ rpc = "idle" /\ rdResult.kind = "frame" /\ rdAt.quiet /\ rdAt.count = seq
  /\ hist[seq] # hist[seq - slot_count]

\* C4: a readLatest that loads the sequence before any writeFrame has
\* returned gives null, whatever the slots hold.
C4_NoFrameYet ==
  (rpc = "idle" /\ rdResult.kind # "none" /\ rdAt.count = 0)
    => rdResult.kind = "null"

C4_Witness ==
  /\ rpc = "idle" /\ rdResult.kind = "null"
  /\ \E i \in 0..(slot_count - 1) : slots[i] # UniformFrame(0)

\* C6: a consumer that keeps a copy only when the sequence is unchanged
\* after the copy never keeps bytes other than those of frame S.
C6_RecheckSound ==
  accepted.kind = "copy" => accepted.bytes = hist[accepted.seq]

\* a torn copy was made and thrown away, and a copy was kept
C6_Witness ==
  /\ accepted.kind = "copy"
  /\ discarded.kind = "copy"
  /\ discarded.bytes \notin Frames

-----------------------------------------------------------------------------
(* decklink-helper.cpp: FrameQueue *)

\* FrameQueue::push: at kMaxQueuedFrames the front is dropped, then the
\* frame is appended.
push_DropNewest(frames, frame) ==
  IF Len(frames) >= kMaxQueuedFrames
    THEN Append(SubSeq(frames, 1, Len(frames) - 1), frame)
    ELSE Append(frames, frame)

push(frames, frame) ==
  IF Len(frames) >= kMaxQueuedFrames
    THEN Append(Tail(frames), frame)
    ELSE Append(frames, frame)

\* A pop that takes the newest frame.
pop_Back(frames) ==
  IF frames = <<>>
    THEN [ok |-> FALSE, out |-> <<>>, frames |-> frames]
    ELSE [ok |-> TRUE, out |-> frames[Len(frames)],
          frames |-> SubSeq(frames, 1, Len(frames) - 1)]

\* FrameQueue::pop: false on an empty queue, else the front is moved out.
pop(frames) ==
  IF frames = <<>>
    THEN [ok |-> FALSE, out |-> <<>>, frames |-> frames]
    ELSE [ok |-> TRUE, out |-> Head(frames), frames |-> Tail(frames)]

(* SpecQueue: push and pop of one FrameQueue, each under its mutex. *)

QueuePush(frame) ==
  /\ Len(pushed) < MaxPushes
  /\ state' = [state EXCEPT !.queue = push(@, frame)]
  /\ pushed' = Append(pushed, frame)
  /\ UNCHANGED <<sink, gShouldExit, ingest, popCount, lastPop, tick>>
  /\ UNCHANGED notPlay

QueuePop ==
  /\ LET r == pop(state.queue)
     IN /\ state' = [state EXCEPT !.queue = r.frames]
        /\ lastPop' = [ok |-> r.ok, out |-> r.out]
        /\ popCount' = IF r.ok THEN popCount + 1 ELSE popCount
  /\ UNCHANGED <<sink, gShouldExit, ingest, pushed, tick>>
  /\ UNCHANGED notPlay

InitQueue == PlayStart /\ RingUnused /\ LifeStart /\ StreamUnused /\ AuxUnused

NextQueue ==
  \/ \E frame \in Frames : QueuePush(frame)
  \/ QueuePop

SpecQueue == InitQueue /\ [][NextQueue]_vars

\* The last n elements of s.
LastN(s, n) == SubSeq(s, Len(s) - n + 1, Len(s))

\* C7: the queue never holds more than kMaxQueuedFrames frames and is always
\* the newest part of what was pushed, in push order; with no pop it holds
\* exactly the newest min(pushes, kMaxQueuedFrames) frames, so the push onto
\* a full queue dropped the oldest entry and nothing else.
C7_DropOldest ==
  /\ Len(state.queue) <= kMaxQueuedFrames
  /\ Len(state.queue) <= Len(pushed)
  /\ state.queue = LastN(pushed, Len(state.queue))
  /\ popCount = 0 => Len(state.queue) = Min(Len(pushed), kMaxQueuedFrames)

\* N + 1 frames pushed, none popped, the dropped one differs from the kept
C7_Witness ==
  /\ popCount = 0
  /\ Len(pushed) = kMaxQueuedFrames + 1
  /\ Len(state.queue) = kMaxQueuedFrames
  /\ pushed[1] # pushed[2]
  /\ pushed[kMaxQueuedFrames] # pushed[kMaxQueuedFrames + 1]

-----------------------------------------------------------------------------
(* decklink-helper.cpp: scheduleFrame, maybeStartPlayback, the completion  *)
(* callback and the end of runPlayback                                     *)

\* What the sink's calls inside one scheduleFrame do: every call succeeds,
\* building or converting the output frame fails, or ScheduleVideoFrame fails.
Outcomes == {"ok", "convertFail", "submitFail"}

\* BMDOutputFrameCompletionResult
Results == {"completed", "late", "dropped", "flushed"}

\* A scheduleFrame that advances nextFrameTime before it calls
\* ScheduleVideoFrame, and so also when the call fails.
scheduleFrame_AdvanceFirst(st, sk, frameData, outcome) ==
  IF frameData = <<>> \/ outcome = "convertFail"
    THEN [state |-> st, sink |-> sk, ok |-> FALSE]
    ELSE IF outcome = "submitFail"
      THEN [state |-> [st EXCEPT !.nextFrameTime = @ + st.frameDuration],
            sink |-> [sk EXCEPT !.lateCall = @ \/ sk.stopped],
            ok |-> FALSE]
      ELSE [state |-> [st EXCEPT !.nextFrameTime = @ + st.frameDuration],
            sink |-> [sk EXCEPT
                        !.scheduled = Append(@, [frame |-> frameData,
                                                 time |-> st.nextFrameTime]),
                        !.inFlight = @ + 1,
                        !.lateCall = @ \/ sk.stopped],
            ok |-> TRUE]

\* A scheduleFrame that submits a refused frame once more, and is accepted.
scheduleFrame_Retry(st, sk, frameData, outcome) ==
  IF frameData = <<>> \/ outcome = "convertFail"
    THEN [state |-> st, sink |-> sk, ok |-> FALSE]
    ELSE [state |-> [st EXCEPT !.nextFrameTime = @ + st.frameDuration],
          sink |-> [sk EXCEPT
                      !.scheduled = Append(@, [frame |-> frameData,
                                               time |-> st.nextFrameTime]),
                      !.inFlight = @ + 1,
                      !.lateCall = @ \/ sk.stopped],
          ok |-> outcome = "ok"]

\* A scheduleFrame that submits the frame for two output times.
scheduleFrame_Twice(st, sk, frameData, outcome) ==
  IF frameData = <<>> \/ outcome = "convertFail"
    THEN [state |-> st, sink |-> sk, ok |-> FALSE]
    ELSE IF outcome = "submitFail"
      THEN [state |-> st,
            sink |-> [sk EXCEPT !.lateCall = @ \/ sk.stopped],
            ok |-> FALSE]
      ELSE [state |-> [st EXCEPT !.nextFrameTime = @ + st.frameDuration + st.frameDuration],
            sink |-> [sk EXCEPT
                        !.scheduled = @ \o <<[frame |-> frameData,
                                               time |-> st.nextFrameTime],
                                              [frame |-> frameData,
                                               time |-> st.nextFrameTime + st.frameDuration]>>,
                        !.inFlight = @ + 2,
                        !.lateCall = @ \/ sk.stopped],
            ok |-> TRUE]

scheduleFrame_FailedAdvances(st, sk, frameData, outcome) ==
  IF frameData = <<>>
    THEN [state |-> st, sink |-> sk, ok |-> FALSE]
    ELSE IF outcome = "convertFail"
      THEN [state |-> [st EXCEPT !.nextFrameTime = @ + st.frameDuration],
            sink |-> sk, ok |-> FALSE]
    ELSE IF outcome = "submitFail"
      THEN [state |-> st,
            sink |-> [sk EXCEPT !.lateCall = @ \/ sk.stopped],
            ok |-> FALSE]
      ELSE [state |-> [st EXCEPT !.nextFrameTime = @ + st.frameDuration],
            sink |-> [sk EXCEPT
                        !.scheduled = Append(@, [frame |-> frameData,
                                                 time |-> st.nextFrameTime]),
                        !.inFlight = @ + 1,
                        !.lateCall = @ \/ sk.stopped],
            ok |-> TRUE]

\* scheduleFrame(state, frameData).  The sink's log keeps the source frame
\* that the submitted output frame was converted from and its output time.
scheduleFrame(st, sk, frameData, outcome) ==
  IF frameData = <<>> \/ outcome = "convertFail"
    THEN [state |-> st, sink |-> sk, ok |-> FALSE]
    ELSE IF outcome = "submitFail"
      THEN [state |-> st,
            sink |-> [sk EXCEPT !.lateCall = @ \/ sk.stopped],
            ok |-> FALSE]
      ELSE [state |-> [st EXCEPT !.nextFrameTime = @ + st.frameDuration],
            sink |-> [sk EXCEPT
                        !.scheduled = Append(@, [frame |-> frameData,
                                                 time |-> st.nextFrameTime]),
                        !.inFlight = @ + 1,
                        !.lateCall = @ \/ sk.stopped],
            ok |-> TRUE]

\* maybeStartPlayback, the while loop: pop, keep as lastFrame, schedule;
\* stop at an empty queue or at the first scheduleFrame that fails.
\* w is [state, sink, pops]; outs[i] is the outcome of the i-th scheduleFrame.
RECURSIVE PrerollLoop(_, _, _)
PrerollScheduled(w, sf, outs, i) ==
  IF sf.ok
    THEN PrerollLoop([state |-> [sf.state EXCEPT !.prerollScheduled = @ + 1],
                      sink |-> sf.sink, pops |-> w.pops + 1],
                     outs, i + 1)
    ELSE [state |-> sf.state, sink |-> sf.sink, pops |-> w.pops + 1]

\* A preroll that does not keep the frame it dequeues as lastFrame.
PrerollPopped_NotRetained(w, r, outs, i) ==
  IF ~r.ok
    THEN w
    ELSE PrerollScheduled(
           w,
           scheduleFrame([w.state EXCEPT !.queue = r.frames], w.sink, r.out, outs[i]),
           outs, i)

PrerollPopped(w, r, outs, i) ==
  IF ~r.ok
    THEN w
    ELSE PrerollScheduled(
           w,
           scheduleFrame([w.state EXCEPT !.queue = r.frames, !.lastFrame = r.out,
                                         !.hasLastFrame = TRUE],
                         w.sink, r.out, outs[i]),
           outs, i)

PrerollLoop(w, outs, i) ==
  IF w.state.prerollScheduled < prerollTarget
    THEN PrerollPopped(w, pop(w.state.queue), outs, i)
    ELSE w

\* maybeStartPlayback setting started whatever StartScheduledPlayback returns.
StartAfterPreroll_IgnoreResult(w, startOk) ==
  IF w.state.prerollScheduled >= prerollTarget
    THEN [state |-> [w.state EXCEPT !.started = TRUE],
          sink |-> [w.sink EXCEPT !.playing = startOk],
          pops |-> w.pops]
    ELSE w

\* maybeStartPlayback calling StartScheduledPlayback whatever was scheduled.
StartAfterPreroll_Early(w, startOk) ==
  IF startOk
    THEN [state |-> [w.state EXCEPT !.started = TRUE],
          sink |-> [w.sink EXCEPT !.playing = TRUE],
          pops |-> w.pops]
    ELSE w

\* maybeStartPlayback, after the loop: at the preroll target
\* StartScheduledPlayback is called; started is set when it succeeds.
StartAfterPreroll(w, startOk) ==
  IF w.state.prerollScheduled >= prerollTarget /\ startOk
    THEN [state |-> [w.state EXCEPT !.started = TRUE],
          sink |-> [w.sink EXCEPT !.playing = TRUE],
          pops |-> w.pops]
    ELSE w

\* maybeStartPlayback: nothing once started; else the loop, and at the
\* preroll target StartScheduledPlayback, which sets started when it succeeds.
maybeStartPlayback(st, sk, outs, startOk) ==
  IF st.started
    THEN [state |-> st, sink |-> sk, pops |-> 0]
    ELSE StartAfterPreroll(PrerollLoop([state |-> st, sink |-> sk, pops |-> 0], outs, 1),
                           startOk)

\* The tail of one iteration of either ingestion loop:
\* state.queue.push(frameBuffer); maybeStartPlayback();
IngestHandled(frame, outs, startOk) ==
  /\ ingest = "running"
  /\ ~gShouldExit
  /\ \E w \in {maybeStartPlayback([state EXCEPT !.queue = push(@, frame)], sink,
                                    outs, startOk)} :
       /\ state' = w.state
       /\ sink' = w.sink
       /\ popCount' = popCount + w.pops
  /\ pushed' = Append(pushed, frame)
  /\ UNCHANGED <<gShouldExit, ingest, lastPop, tick>>
  /\ UNCHANGED notPlay

IngestFrame(frame, outs, startOk) ==
  /\ Len(pushed) < MaxIngest
  /\ IngestHandled(frame, outs, startOk)

\* ScheduledFrameCompleted: the frame used when the queue is empty.
UnderrunFrame_Nothing(st) == <<>>
UnderrunFrame(st) == IF st.hasLastFrame THEN st.lastFrame ELSE <<>>

\* Counters that do not count a flushed frame as dropped.
CountCompletion_FlushedApart(st, result) ==
  [st EXCEPT !.completedFrames = @ + 1,
             !.lateFrames = IF result = "late" THEN @ + 1 ELSE @,
             !.droppedFrames = IF result = "dropped" THEN @ + 1 ELSE @]

\* The counters of ScheduledFrameCompleted (lines 1175-1187).
CountCompletion(st, result) ==
  [st EXCEPT !.completedFrames = @ + 1,
             !.lateFrames = IF result = "late" THEN @ + 1 ELSE @,
             !.droppedFrames = IF result \in {"dropped", "flushed"} THEN @ + 1 ELSE @]

\* DeckLinkPlaybackCallback::ScheduledFrameCompleted, called by the sink on
\* its own thread for a frame it had accepted.
CompletionHandled(result, outcome) ==
  /\ sink.callback
  /\ sink.inFlight > 0
  /\ sink.playing \/ sink.stopped
  /\ \E r \in {pop(state.queue)} :
     \E frameData \in {IF r.ok THEN r.out ELSE UnderrunFrame(state)} :
     \E s1 \in {IF frameData # <<>>
                  THEN [CountCompletion(state, result) EXCEPT
                          !.queue = r.frames, !.lastFrame = frameData,
                          !.hasLastFrame = TRUE]
                  ELSE [CountCompletion(state, result) EXCEPT !.queue = r.frames]} :
     \E k0 \in {[sink EXCEPT !.inFlight = @ - 1]} :
     \E sf \in {IF frameData # <<>>
                  THEN scheduleFrame(s1, k0, frameData, outcome)
                  ELSE [state |-> s1, sink |-> k0, ok |-> FALSE]} :
       /\ state' = sf.state
       /\ sink' = sf.sink
       /\ popCount' = IF r.ok THEN popCount + 1 ELSE popCount
       /\ tick' = [n |-> s1.completedFrames,
                   running |-> state.started /\ ~sink.stopped,
                   wasEmpty |-> ~r.ok,
                   hadLast |-> state.hasLastFrame,
                   lastBefore |-> state.lastFrame,
                   passed |-> frameData,
                   outcome |-> outcome,
                   ok |-> sf.ok,
                   submitted |-> IF sf.ok
                                   THEN sf.sink.scheduled[Len(sf.sink.scheduled)].frame
                                   ELSE <<>>,
                   lastAfter |-> sf.state.lastFrame,
                   result |-> result]
  /\ UNCHANGED <<gShouldExit, ingest, pushed, lastPop>>
  /\ UNCHANGED notPlay

ScheduledFrameCompleted(result, outcome) ==
  /\ state.completedFrames < MaxCompletions
  /\ CompletionHandled(result, outcome)

\* handleSignal: SIGINT or SIGTERM sets the stop flag.
handleSignal ==
  /\ ~gShouldExit
  /\ gShouldExit' = TRUE
  /\ UNCHANGED <<state, sink, ingest, pushed, popCount, lastPop, tick>>
  /\ UNCHANGED notPlay

\* The ingestion loop ends (stop flag, end of input, shutdown frame or a bad
\* header) and runPlayback calls StopScheduledPlayback (line 2065).
StopScheduledPlayback ==
  /\ ingest = "running"
  /\ ingest' = "stopping"
  /\ sink' = [sink EXCEPT !.stopped = TRUE, !.playing = FALSE]
  /\ UNCHANGED <<state, gShouldExit, pushed, popCount, lastPop, tick>>
  /\ UNCHANGED notPlay

\* DisableVideoOutput and SetScheduledFrameCompletionCallback(nullptr)
\* (lines 2069-2070): no completion is delivered after this.
ClearCallback ==
  /\ ingest = "stopping"
  /\ ingest' = "done"
  /\ sink' = [sink EXCEPT !.callback = FALSE]
  /\ UNCHANGED <<state, gShouldExit, pushed, popCount, lastPop, tick>>
  /\ UNCHANGED notPlay

InitPlay == PlayStart /\ RingUnused /\ LifeStart /\ StreamUnused /\ AuxUnused

\* The outcomes of the scheduleFrame calls of one maybeStartPlayback: the
\* loop ends at the first failure, so they are some successes and then one
\* kind of failure.
PrerollOutcomes ==
  {[i \in 1..prerollTarget |-> IF i <= okCount THEN "ok" ELSE fail] :
     okCount \in 0..prerollTarget, fail \in Outcomes \ {"ok"}}

NextPlay ==
  \/ \E frame \in Frames, outs \in PrerollOutcomes, startOk \in BOOLEAN :
       IngestFrame(frame, outs, startOk)
  \/ \E result \in Results, outcome \in Outcomes : ScheduledFrameCompleted(result, outcome)
  \/ handleSignal
  \/ StopScheduledPlayback
  \/ ClearCallback

SpecPlay == InitPlay /\ [][NextPlay]_vars

\* C8: a completion notification handled while playback is running, with an
\* empty queue and a retained last frame, hands exactly that frame to
\* scheduleFrame; when the sink's calls succeed it is the frame the sink
\* receives, and the retained frame is the same afterwards.
C8_UnderrunRepeat ==
  (tick.n > 0 /\ tick.running /\ tick.wasEmpty /\ tick.hadLast)
    => /\ tick.lastBefore # <<>>
       /\ tick.passed = tick.lastBefore
       /\ tick.lastAfter = tick.lastBefore
       /\ tick.outcome = "ok" => (tick.ok /\ tick.submitted = tick.lastBefore)
       /\ tick.ok => tick.submitted = tick.lastBefore

\* an underrun repeat that the sink accepted, of a frame that is not the
\* first one pushed
C8_Witness ==
  /\ tick.n > 0 /\ tick.running /\ tick.wasEmpty /\ tick.hadLast
  /\ tick.ok
  /\ tick.submitted = pushed[Len(pushed)]
  /\ tick.submitted # pushed[1]

-----------------------------------------------------------------------------
(* decklink-helper.cpp: the stdin ingestion loop of runPlayback            *)

\* Big-endian byte strings, as the sending side writes the header fields.
ByteOf(v, k) == (v \div (256 ^ k)) % 256
BE16(v) == <<ByteOf(v, 1), ByteOf(v, 0)>>
BE32(v) == <<ByteOf(v, 3), ByteOf(v, 2), ByteOf(v, 1), ByteOf(v, 0)>>

\* data + off, n bytes of it
At(data, off, n) == SubSeq(data, off + 1, off + n)

\* readUint32BE, readUint16BE: shift and or of the bytes, first byte highest.
readUint32BE(data) ==
  data[1] * (2 ^ 24) + data[2] * (2 ^ 16) + data[3] * (2 ^ 8) + data[4]

readUint16BE(data) == data[1] * (2 ^ 8) + data[2]

\* readUint64BE: the value is (hi << 32) | lo, kept as its two halves.
readUint64BE(data) ==
  [hi |-> readUint32BE(At(data, 0, 4)), lo |-> readUint32BE(At(data, 4, 4))]

\* The PlaybackFrameHeader filled from headerBuffer (lines 2003-2010).
ParseHeader(headerBuffer) ==
  [magic |-> readUint32BE(At(headerBuffer, 0, 4)),
   version |-> readUint16BE(At(headerBuffer, 4, 2)),
   type |-> readUint16BE(At(headerBuffer, 6, 2)),
   width |-> readUint32BE(At(headerBuffer, 8, 4)),
   height |-> readUint32BE(At(headerBuffer, 12, 4)),
   timestamp |-> readUint64BE(At(headerBuffer, 16, 8)),
   bufferLength |-> readUint32BE(At(headerBuffer, 24, 4))]

\* expectedBytes of runPlayback: config.width * config.height * 4
expectedBytes == Geometry.width * Geometry.height * 4

\* readExact on the pipe, at bytes already read: length more bytes, or
\* false when the input ends (or a read fails) first; what was left of the
\* input is consumed then.
readExact(bytes, at, length) ==
  IF at + length <= Len(bytes)
    THEN [ok |-> TRUE, data |-> SubSeq(bytes, at + 1, at + length), pos |-> at + length]
    ELSE [ok |-> FALSE, data |-> <<>>, pos |-> Len(bytes)]

\* discardBytes: readExact in chunks of the 4096 byte buffer.
RECURSIVE discardBytes(_, _, _)
discardChunk(bytes, r, remaining, chunk) ==
  IF ~r.ok
    THEN [ok |-> FALSE, pos |-> r.pos]
    ELSE discardBytes(bytes, r.pos, remaining - chunk)

discardBytes(bytes, at, remaining) ==
  IF remaining > 0
    THEN discardChunk(bytes, readExact(bytes, at, Min(remaining, kDiscardBufferSize)),
                      remaining, Min(remaining, kDiscardBufferSize))
    ELSE [ok |-> TRUE, pos |-> at]

\* if (header.bufferLength > 0) { if (!discardBytes(...)) break; } continue;
SkipPayload_None(bytes, at, bufferLength) == [ok |-> TRUE, pos |-> at]
SkipPayload(bytes, at, bufferLength) ==
  IF bufferLength > 0
    THEN discardBytes(bytes, at, bufferLength)
    ELSE [ok |-> TRUE, pos |-> at]

\* header.type == kFrameTypeShutdown
IsShutdownFrame_Never(header) == FALSE
IsShutdownFrame(header) == header.type = kFrameTypeShutdown

HeaderMismatch_NoLength(header) ==
  \/ header.width # Geometry.width
  \/ header.height # Geometry.height

\* The width / height / length test of lines 2036-2038.
HeaderMismatch(header) ==
  \/ header.width # Geometry.width
  \/ header.height # Geometry.height
  \/ header.bufferLength # expectedBytes

\* One pass of the loop body over the input: what it found (verdict), the
\* read position after it, the frame it pushes (<<>> when none) and
\* whether it leaves the loop (exit, "none" for the next pass).
PassResult(verdict, header, at, frame, exit) ==
  [verdict |-> verdict, len |-> header.bufferLength, pos |-> at,
   frame |-> frame, exit |-> exit]

AfterDiscard(verdict, header, d) ==
  PassResult(verdict, header, d.pos, <<>>, IF d.ok THEN "none" ELSE "discardEof")

AfterPayload(header, r) ==
  IF ~r.ok
    THEN PassResult("payloadEof", header, r.pos, <<>>, "payloadEof")
    ELSE PassResult("frame", header, r.pos, r.data, "none")

\* header.magic != kFrameMagic || header.version != kFrameVersion
HeaderInvalid_MagicOnly(header) == header.magic # kFrameMagic
HeaderInvalid(header) ==
  header.magic # kFrameMagic \/ header.version # kFrameVersion

Dispatch(bytes, at, header) ==
  IF HeaderInvalid(header)
    THEN PassResult("invalid", header, at, <<>>, "invalid")
    ELSE IF IsShutdownFrame(header)
      THEN PassResult("shutdown", header, at, <<>>, "shutdown")
      ELSE IF header.type # kFrameTypeFrame
        THEN AfterDiscard("unknownType", header,
                          SkipPayload(bytes, at, header.bufferLength))
        ELSE IF HeaderMismatch(header)
          THEN AfterDiscard("mismatch", header,
                            SkipPayload(bytes, at, header.bufferLength))
          ELSE AfterPayload(header, readExact(bytes, at, header.bufferLength))

AfterHeader(bytes, r) ==
  IF ~r.ok
    THEN [verdict |-> "eof", len |-> 0, pos |-> r.pos, frame |-> <<>>, exit |-> "eof"]
    ELSE Dispatch(bytes, r.pos, ParseHeader(r.data))

LoopBody(bytes, at) == AfterHeader(bytes, readExact(bytes, at, kFrameHeaderSize))

(* SpecStream: the loop of lines 1998-2062 over one input stream. *)

\* One pass: read a header, act on it; a valid frame is pushed and
\* maybeStartPlayback runs.
StreamPass(outs, startOk) ==
  /\ \E it \in {LoopBody(stream, pos)} :
       /\ pos' = it.pos
       /\ exitReason' = it.exit
       /\ iters' = Append(iters, [at |-> pos, verdict |-> it.verdict, len |-> it.len,
                                  after |-> it.pos, frame |-> it.frame,
                                  exit |-> it.exit])
       /\ IF it.verdict = "frame"
            THEN /\ \E w \in {maybeStartPlayback([state EXCEPT !.queue = push(@, it.frame)],
                                                 sink, outs, startOk)} :
                      /\ state' = w.state
                      /\ sink' = w.sink
                      /\ popCount' = popCount + w.pops
                 /\ pushed' = Append(pushed, it.frame)
            ELSE UNCHANGED <<state, sink, popCount, pushed>>
  /\ UNCHANGED <<gShouldExit, ingest, lastPop, tick, stream, items>>
  /\ UNCHANGED <<ringVars, lifeVars>>

\* The test of the loop and one pass, on an input that is all there.
StreamIteration(outs, startOk) ==
  /\ ingest = "running"
  /\ exitReason = "none"
  /\ ~gShouldExit
  /\ StreamPass(outs, startOk)
  /\ UNCHANGED auxVars

\* while (!gShouldExit.load()): the loop is left when the flag is set.
StreamExitOnFlag ==
  /\ ingest = "running"
  /\ exitReason = "none"
  /\ gShouldExit
  /\ exitReason' = "stopFlag"
  /\ UNCHANGED <<playVars, stream, pos, items, iters>>
  /\ UNCHANGED notStream

\* The records a stream is made of: a 28 byte header and len payload bytes.
Timestamp == <<0, 0, 0, 1, 0, 0, 0, 7>>

StreamRecord(kind, magic, version, type, width, height, payload) ==
  [kind |-> kind, magic |-> magic, version |-> version, type |-> type,
   width |-> width, height |-> height, len |-> Len(payload), payload |-> payload]

RecordBytes(rec) ==
  BE32(rec.magic) \o BE16(rec.version) \o BE16(rec.type) \o BE32(rec.width)
    \o BE32(rec.height) \o Timestamp \o BE32(rec.len) \o rec.payload

ValidFrames ==
  {StreamRecord("frame", kFrameMagic, kFrameVersion, kFrameTypeFrame,
                Geometry.width, Geometry.height, UniformFrame(v)) : v \in Pixels}

MismatchKinds == {"badLen", "badWidth", "badHeight"}

OtherRecords ==
  {StreamRecord("badLen", kFrameMagic, kFrameVersion, kFrameTypeFrame,
                Geometry.width, Geometry.height, <<99, 99, 99, 99, 99>>),
   StreamRecord("badLen", kFrameMagic, kFrameVersion, kFrameTypeFrame,
                Geometry.width, Geometry.height, <<>>),
   StreamRecord("badWidth", kFrameMagic, kFrameVersion, kFrameTypeFrame,
                Geometry.width + 1, Geometry.height, UniformFrame(17)),
   StreamRecord("badHeight", kFrameMagic, kFrameVersion, kFrameTypeFrame,
                Geometry.width, Geometry.height + 1, UniformFrame(17) \o UniformFrame(42)),
   StreamRecord("shutdown", kFrameMagic, kFrameVersion, kFrameTypeShutdown,
                Geometry.width, Geometry.height, <<99, 99>>),
   StreamRecord("unknownType", kFrameMagic, kFrameVersion, kFrameTypeShutdown + 1,
                Geometry.width, Geometry.height, <<99, 99>>),
   StreamRecord("badMagic", kFrameMagic + 1, kFrameVersion, kFrameTypeFrame,
                Geometry.width, Geometry.height, UniformFrame(17)),
   StreamRecord("badVersion", kFrameMagic, kFrameVersion + 1, kFrameTypeFrame,
                Geometry.width, Geometry.height, UniformFrame(17))}

StreamRecords == ValidFrames \cup OtherRecords

RECURSIVE Concat(_, _)
Concat(recs, n) ==
  IF n = 0 THEN <<>> ELSE Concat(recs, n - 1) \o RecordBytes(recs[n])

\* Offset in the stream of the first byte of record j.
RecordStart(recs, j) == Len(Concat(recs, j - 1))

\* The records with their offsets.
Placed(recs) ==
  [j \in 1..Len(recs) |-> [rec |-> recs[j], start |-> RecordStart(recs, j)]]

\* The input may end in the middle of the last record.
Cuts == {0, 2}
CutOff(bytes, cut) ==
  IF Len(bytes) > cut THEN SubSeq(bytes, 1, Len(bytes) - cut) ELSE <<>>

\* The loop about to start on the stream made of recs, less its last cut bytes.
StreamStart(recs, cut) ==
  /\ items = Placed(recs)
  /\ stream = CutOff(Concat(recs, Len(recs)), cut)
  /\ pos = 0
  /\ exitReason = "none"
  /\ iters = <<>>

RecordSeqs == UNION {[1..n -> StreamRecords] : n \in 0..MaxItems}

InitStream ==
  /\ PlayStart /\ RingUnused /\ LifeStart /\ AuxUnused
  /\ \E recs \in RecordSeqs, cut \in Cuts : StreamStart(recs, cut)

NextStream ==
  \/ \E outs \in PrerollOutcomes, startOk \in BOOLEAN : StreamIteration(outs, startOk)
  \/ StreamExitOnFlag
  \/ handleSignal

\* The loop thread keeps running: a read returns once the bytes are there
\* or the input has ended.
LoopStep ==
  \/ \E outs \in PrerollOutcomes, startOk \in BOOLEAN : StreamIteration(outs, startOk)
  \/ StreamExitOnFlag

SpecStream == InitStream /\ [][NextStream]_vars

(* SpecShutdown: the same loop on the streams that are some valid frames, *)
(* a shutdown header and then anything.                                    *)

ShutdownSeqs ==
  {recs \in RecordSeqs :
     \E k \in 1..Len(recs) :
       /\ recs[k].kind = "shutdown"
       /\ \A i \in 1..(k - 1) : recs[i].kind = "frame"}

InitShutdown ==
  /\ PlayStart /\ RingUnused /\ LifeStart /\ AuxUnused
  /\ \E recs \in ShutdownSeqs, cut \in Cuts : StreamStart(recs, cut)

SpecShutdown == InitShutdown /\ [][NextStream]_vars /\ WF_vars(LoopStep)

\* Record j is wholly in the stream.
RecordComplete(j) ==
  items[j].start + kFrameHeaderSize + items[j].rec.len <= Len(stream)

\* The frames pushed by the first n passes, in order.
RECURSIVE FramesOf(_, _)
FramesOf(log, n) ==
  IF n = 0
    THEN <<>>
    ELSE IF log[n].verdict = "frame"
      THEN Append(FramesOf(log, n - 1), log[n].frame)
      ELSE FramesOf(log, n - 1)

\* C9: a pass that starts at a data-frame record with valid magic and
\* version whose width, height or length is not the expected one, and whose
\* payload is in the stream, reads exactly the header and the declared
\* payload length, pushes nothing and stays in the loop; the next pass
\* starts at the first byte after that payload, and when a valid frame
\* stands there it is the frame that pass pushes.
C9_MismatchDiscarded ==
  /\ pushed = FramesOf(iters, Len(iters))
  /\ \A i \in 1..Len(iters), j \in 1..Len(items) :
       (/\ iters[i].at = items[j].start
        /\ items[j].rec.kind \in MismatchKinds
        /\ RecordComplete(j))
         => /\ iters[i].verdict = "mismatch"
            /\ iters[i].after = iters[i].at + kFrameHeaderSize + items[j].rec.len
            /\ iters[i].frame = <<>>
            /\ iters[i].exit = "none"
            /\ i < Len(iters) => iters[i + 1].at = iters[i].after
            /\ (/\ i < Len(iters)
                /\ j < Len(items)
                /\ items[j + 1].rec.kind = "frame"
                /\ RecordComplete(j + 1))
                 => /\ iters[i + 1].verdict = "frame"
                    /\ iters[i + 1].frame = items[j + 1].rec.payload
                    /\ iters[i + 1].exit = "none"

\* a wrong-width record and a wrong-length record with payload were
\* skipped and the valid frame after them was pushed
C9_Witness ==
  /\ Len(items) = 3 /\ Len(iters) = 3
  /\ items[1].rec.kind = "badWidth"
  /\ items[2].rec.kind = "badLen" /\ items[2].rec.len > 0
  /\ items[3].rec.kind = "frame"
  /\ iters[2].verdict = "mismatch"
  /\ iters[3].verdict = "frame"
  /\ pushed = <<items[3].rec.payload>>
  /\ Len(state.queue) + popCount = 1

\* The first shutdown record of the stream, 0 when there is none.
ShutdownAt ==
  IF \E j \in 1..Len(items) : items[j].rec.kind = "shutdown"
    THEN CHOOSE j \in 1..Len(items) :
           /\ items[j].rec.kind = "shutdown"
           /\ \A i \in 1..(j - 1) : items[i].rec.kind # "shutdown"
    ELSE 0

\* The stream is k valid frames, a shutdown header, then anything.
FramesThenShutdown ==
  /\ ShutdownAt > 0
  /\ \A i \in 1..(ShutdownAt - 1) : items[i].rec.kind = "frame"
  /\ items[ShutdownAt].start + kFrameHeaderSize <= Len(stream)

ShutdownEnd == items[ShutdownAt].start + kFrameHeaderSize

C10_Safe ==
  FramesThenShutdown
    => /\ pos <= ShutdownEnd
       /\ Len(pushed) <= ShutdownAt - 1
       /\ \A i \in 1..Len(pushed) : pushed[i] = items[i].rec.payload
       /\ exitReason \in {"none", "shutdown", "stopFlag"}
       /\ exitReason = "stopFlag" => gShouldExit
       /\ exitReason = "shutdown" => (pos = ShutdownEnd /\ Len(pushed) = ShutdownAt - 1)
       /\ pos = ShutdownEnd => exitReason = "shutdown"

\* C10: on a stream of k valid frames, a shutdown header and then any
\* bytes, the read position never passes the end of the shutdown header,
\* the frames pushed are the first of the k in order, the loop ends (at the
\* shutdown header unless the stop flag ended it before) and when it ended
\* at the shutdown header exactly the k frames were pushed.
C10_ShutdownEndsIngestion ==
  /\ [](C10_Safe)
  /\ FramesThenShutdown ~> (exitReason = "shutdown" \/ gShouldExit)

\* two different frames, the shutdown header, bytes left unread after it
C10_Witness ==
  /\ FramesThenShutdown
  /\ ShutdownAt = 3
  /\ exitReason = "shutdown"
  /\ ~gShouldExit
  /\ Len(pushed) = 2 /\ pushed[1] # pushed[2]
  /\ pos = ShutdownEnd
  /\ Len(stream) > pos

-----------------------------------------------------------------------------
(* SpecFatal: the stdin loop and the shutdown path of runPlayback on the  *)
(* streams that are some valid frames, a header with a wrong magic or     *)
(* version and at most one more record.                                    *)

\* After the loop: StopScheduledPlayback (line 2065).
StreamStop == exitReason # "none" /\ StopScheduledPlayback

InvalidKinds == {"badMagic", "badVersion"}

FatalSeqs ==
  {recs \in RecordSeqs :
     \E k \in 1..Len(recs) :
       /\ recs[k].kind \in InvalidKinds
       /\ \A i \in 1..(k - 1) : recs[i].kind = "frame"
       /\ Len(recs) <= k + 1}

InitFatal ==
  /\ PlayStart /\ RingUnused /\ LifeStart /\ AuxUnused
  /\ \E recs \in FatalSeqs, cut \in Cuts : StreamStart(recs, cut)

NextFatal ==
  \/ \E outs \in PrerollOutcomes, startOk \in BOOLEAN : StreamIteration(outs, startOk)
  \/ StreamExitOnFlag
  \/ handleSignal
  \/ StreamStop
  \/ ClearCallback

\* The main thread runs on: the loop, then the calls after it.
SpecFatal ==
  InitFatal /\ [][NextFatal]_vars /\ WF_vars(LoopStep) /\ WF_vars(StreamStop)

\* The header of record j is wholly in the stream.
HeaderComplete(j) == items[j].start + kFrameHeaderSize <= Len(stream)

C11_Safe ==
  /\ \A i \in 1..Len(iters), j \in 1..Len(items) :
       (/\ iters[i].at = items[j].start
        /\ items[j].rec.kind \in InvalidKinds
        /\ HeaderComplete(j))
         => iters[i].verdict = "invalid"
  /\ \A i \in 1..Len(iters) :
       iters[i].verdict = "invalid"
         => /\ i = Len(iters)
            /\ exitReason = "invalid"
            /\ pos = iters[i].at + kFrameHeaderSize
            /\ pushed = FramesOf(iters, i - 1)
  /\ ingest # "running" => (exitReason # "none" /\ sink.stopped /\ ~sink.playing)

\* C11: a header whose magic or version is wrong is the last thing the
\* loop reads: the read position stays at the end of that header, no pass
\* follows it, nothing more is pushed, and the shutdown path then calls
\* StopScheduledPlayback.
C11_InvalidHeaderEndsIngestion ==
  /\ [](C11_Safe)
  /\ (exitReason = "invalid") ~> (ingest # "running" /\ sink.stopped)

\* a frame was pushed, then a wrong-version header ended the loop with a
\* valid frame left unread behind it, and output was stopped
C11_Witness ==
  /\ Len(items) = 3
  /\ items[2].rec.kind = "badVersion"
  /\ items[3].rec.kind = "frame"
  /\ exitReason = "invalid"
  /\ Len(pushed) = 1
  /\ Len(stream) > pos
  /\ sink.stopped
  /\ ~gShouldExit

-----------------------------------------------------------------------------
(* decklink-helper.cpp: mapToLegalRange                                    *)

\* The values of a uint8_t.
Uint8 == 0..(2 ^ 8 - 1)

\* mapToLegalRange: the scaling is done in int, the result is cast back to
\* uint8_t.
mapToLegalRange_Truncating(value) ==
  LET scaled == (value * kLegalRange) \div kFullRange + kLegalMin
  IN IF scaled < kLegalMin
       THEN kLegalMin
       ELSE IF scaled > kLegalMax THEN kLegalMax ELSE scaled % (2 ^ 8)

mapToLegalRange(value) ==
  LET scaled == (value * kLegalRange + (kFullRange \div 2)) \div kFullRange + kLegalMin
  IN IF scaled < kLegalMin
       THEN kLegalMin
       ELSE IF scaled > kLegalMax THEN kLegalMax ELSE scaled % (2 ^ 8)

(* SpecLegal: mapToLegalRange applied to every 8-bit value. *)

CallMapToLegalRange(value) ==
  /\ conv' = [op |-> "mapToLegalRange", in |-> value, out |-> mapToLegalRange(value)]
  /\ UNCHANGED <<proc, fwd, pipe, mutex>>
  /\ UNCHANGED notAux

InitLegal ==
  /\ RingUnused /\ LifeStart /\ PlayStart /\ StreamUnused /\ AuxUnused

NextLegal == \E value \in Uint8 : CallMapToLegalRange(value)

SpecLegal == InitLegal /\ [][NextLegal]_vars

\* The integer nearest to n / d: the q with |n - q * d| <= d / 2.
Nearest(n, d) ==
  CHOOSE q \in Uint8 : 2 * (n - q * d) <= d /\ 2 * (q * d - n) <= d

Clamp(x, lo, hi) == IF x < lo THEN lo ELSE IF x > hi THEN hi ELSE x

\* C12: for every 8-bit v, mapToLegalRange(v) is round(v * 219 / 255) + 16
\* clamped to 16..235; 0 gives 16, 255 gives 235 and every result lies in
\* 16..235.
C12_LegalRange ==
  conv.op = "mapToLegalRange"
    => /\ conv.out = Clamp(Nearest(conv.in * 219, 255) + 16, 16, 235)
       /\ conv.out \in 16..235
       /\ conv.in = 0 => conv.out = 16
       /\ conv.in = 255 => conv.out = 235

\* a value whose scaled result is rounded up
C12_Witness ==
  /\ conv.op = "mapToLegalRange"
  /\ conv.in = 128
  /\ conv.out = 126

-----------------------------------------------------------------------------
(* SpecOpen: openReader, readLatest and close on a name under which        *)
(* nothing, or an object made by any program, is linked.                   *)

\* Objects found under the name: too small for a descriptor, a descriptor
\* with no room for the slots it names, or a whole object with a descriptor
\* whose magic, version and header_size are right or wrong.
ForeignObjects ==
  {[size |-> sz, hdr |-> ZeroHeader, slots |-> <<>>, last |-> <<>>,
    freed |-> FALSE] :
     sz \in {0, FRAMEBUS_HEADER_SIZE \div 2}}
  \cup
  {[size |-> FRAMEBUS_HEADER_SIZE, hdr |-> InitHeader(2), slots |-> <<>>,
    last |-> <<>>, freed |-> FALSE]}
  \cup
  {[size |-> TotalSize(frame_size, 2),
    hdr |-> [InitHeader(2) EXCEPT !.magic = m, !.version = v, !.header_size = hs],
    slots |-> Truncate(<<>>, 2), last |-> <<>>, freed |-> FALSE] :
     m \in {FRAMEBUS_MAGIC_LE, 0},
     v \in {FRAMEBUS_VERSION, FRAMEBUS_VERSION + 1},
     hs \in {FRAMEBUS_HEADER_SIZE, FRAMEBUS_HEADER_SIZE \div 2}}

InitOpen ==
  /\ RingUnused /\ PlayStart /\ StreamUnused /\ AuxUnused
  /\ \/ nameObj = 0 /\ objs = <<>>
     \/ \E obj \in ForeignObjects : nameObj = 1 /\ objs = <<obj>>
  /\ handles = <<>>
  /\ lifeWrites = 0
  /\ lifeOp = NoLifeOp

NextOpen ==
  \/ \E sys \in SysOutcomes : OpenReader(sys)
  \/ \E h \in 1..MaxHandles : ReaderReadLatest(h)
  \/ \E h \in 1..MaxHandles : Close(h)

SpecOpen == InitOpen /\ [][NextOpen]_vars

\* Nothing is linked under the name, or what is linked is too small or has
\* a wrong magic or header_size.
NotOpenable ==
  \/ nameObj = 0
  \/ objs[nameObj].size < FRAMEBUS_HEADER_SIZE
  \/ objs[nameObj].hdr.magic # FRAMEBUS_MAGIC_LE
  \/ objs[nameObj].hdr.header_size # FRAMEBUS_HEADER_SIZE

\* C13: an open fails when no object is linked under the name and when the
\* object is too small or its magic or header_size is wrong; a failed open
\* returns no handle and holds neither the descriptor nor the mapping; an
\* open that returns a handle was made on an object that passes the checks.
C13_OpenChecks ==
  [][ lifeOp'.op \in {"openReader", "openFailed"}
        => /\ NotOpenable => lifeOp'.op = "openFailed"
           /\ lifeOp'.op = "openFailed"
                => /\ handles' = handles
                   /\ lifeOp'.h = 0
                   /\ lifeOp'.held = {}
           /\ lifeOp'.op = "openReader"
                => /\ ~NotOpenable
                   /\ Len(handles') = Len(handles) + 1
                   /\ lifeOp'.h = Len(handles')
                   /\ handles'[lifeOp'.h] = [st |-> "open", is_writer |-> FALSE,
                                             obj |-> nameObj]
    ]_vars

\* an open refused for the header_size alone, after which nothing is held
C13_Witness ==
  /\ lifeOp.op = "openFailed"
  /\ lifeOp.err = "invalid"
  /\ lifeOp.held = {}
  /\ handles = <<>>
  /\ nameObj # 0
  /\ objs[nameObj].hdr.magic = FRAMEBUS_MAGIC_LE
  /\ objs[nameObj].hdr.header_size # FRAMEBUS_HEADER_SIZE

-----------------------------------------------------------------------------
(* SpecClose: the calls of SpecLife with the arguments every call accepts: *)
(* one slot count, whole frames, no timestamp.                            *)

NextClose ==
  \/ CreateWriter(2)
  \/ OpenReader("ok")
  \/ \E h \in 1..MaxHandles, frame \in Frames : WriterWriteFrame(h, frame, FALSE)
  \/ \E h \in 1..MaxHandles : ReaderReadLatest(h)
  \/ \E h \in 1..MaxHandles : Close(h)

SpecClose == InitLife /\ [][NextClose]_vars


\* Handle h is open before the step and closed after it.
Closes(h) == handles[h].st = "open" /\ handles'[h].st = "closed"

\* Every open handle maps an object the system still keeps.
AttachmentsValid ==
  \A h \in DOMAIN handles :
    handles[h].st = "open"
      => handles[h].obj \in DOMAIN objs /\ ~objs[handles[h].obj].freed

\* C14: the close of a writer handle leaves nothing linked under the name,
\* and until a createWriter links an object again every open fails; a
\* reader that is still attached keeps a valid mapping, and its readLatest
\* returns the sequence of its object and the frame last written to it;
\* the close of a reader leaves the name and the linked object as they are.
C14_CloseUnlinks ==
  /\ [](AttachmentsValid)
  /\ [][ /\ \A h \in DOMAIN handles :
             (Closes(h) /\ handles[h].is_writer) => nameObj' = 0
         /\ (nameObj = 0 /\ lifeOp'.op \in {"openReader", "openFailed"})
              => (lifeOp'.op = "openFailed" /\ handles' = handles)
         /\ (nameObj = 0 /\ nameObj' # 0) => lifeOp'.op = "createWriter"
         /\ lifeOp'.op = "readLatest"
              => /\ lifeOp'.seq = objs[handles[lifeOp'.h].obj].hdr.seq
                 /\ lifeOp'.seq > 0
                      => lifeOp'.bytes = objs[handles[lifeOp'.h].obj].last
                 /\ lifeOp'.seq = 0 => lifeOp'.bytes = <<>>
                 /\ objs' = objs
         /\ \A h \in DOMAIN handles :
             (Closes(h) /\ ~handles[h].is_writer)
               => /\ nameObj' = nameObj
                  /\ nameObj # 0 => objs'[nameObj] = objs[nameObj]
       ]_vars

\* the writer has closed, nothing is linked, and the reader attached before
\* the close has just read the second frame written
C14_Witness ==
  /\ Len(handles) >= 2
  /\ handles[1].is_writer /\ handles[1].st = "closed"
  /\ ~handles[2].is_writer /\ handles[2].st = "open"
  /\ nameObj = 0
  /\ lifeOp.op = "readLatest" /\ lifeOp.h = 2
  /\ lifeOp.seq = 2
  /\ lifeOp.bytes = objs[handles[2].obj].last
  /\ lifeOp.bytes \in Frames

-----------------------------------------------------------------------------
(* SpecSetup: one helper process, decklink-helper in playback mode with a   *)
(* frame-bus name or display-helper, from its start to its exit.  The       *)
(* object linked under the name and the answers of the device and of SDL    *)
(* are the inputs.                                                          *)

\* What the calls of the setup answer: config is the configuration check of
\* runPlayback, device the device lookup and its output interface, mode
\* findDisplayMode, conn supportsOutputConnection, configure
\* configureOutputConnection, enable EnableVideoOutput, sdl the SDL calls of
\* display-helper.
Envs ==
  [config : BOOLEAN, device : BOOLEAN, mode : BOOLEAN, conn : BOOLEAN,
   configure : BOOLEAN, enable : BOOLEAN, sdl : {TRUE}]

SdlEnvs == {[NoEnv EXCEPT !.sdl = b] : b \in BOOLEAN}

\* runPlayback without the check of EnableVideoOutput's result.
SetupFailure_NoEnable(env) ==
  IF ~env.config THEN "config"
  ELSE IF ~env.device THEN "device"
  ELSE IF ~env.mode THEN "mode"
  ELSE IF ~env.conn THEN "conn"
  ELSE IF ~env.configure THEN "configure"
  ELSE "none"

\* runPlayback, lines 1670-1907, without keyer: the first check that fails,
\* each of which returns 1.
SetupFailure(env) ==
  IF ~env.config THEN "config"
  ELSE IF ~env.device THEN "device"
  ELSE IF ~env.mode THEN "mode"
  ELSE IF ~env.conn THEN "conn"
  ELSE IF ~env.configure THEN "configure"
  ELSE IF ~env.enable THEN "enable"
  ELSE "none"

\* runPlayback up to the ready line: a failed check returns 1; otherwise the
\* completion callback is set (line 1910) and ready is printed (line 1912).
DeckLinkSetup ==
  /\ proc.helper = "decklink" /\ proc.pc = "start"
  /\ \E env \in Envs : \E c \in {SetupFailure(env)} :
       IF c # "none"
         THEN /\ proc' = [proc EXCEPT !.pc = "exited", !.exit = 1, !.env = env,
                                      !.cause = c]
              /\ sink' = sink
         ELSE /\ proc' = [proc EXCEPT !.pc = "source", !.ready = TRUE,
                                      !.env = env]
              /\ sink' = [sink EXCEPT !.callback = TRUE]
  /\ UNCHANGED <<state, gShouldExit, ingest, pushed, popCount, lastPop, tick>>
  /\ UNCHANGED <<ringVars, lifeVars, streamVars, conv, fwd, pipe, mutex>>

\* openFrameBusReader of decklink-helper (lines 643-694): shm_open, fstat,
\* the size check, mmap and the check of magic and header_size.
openFrameBusReader(o, objects, sys) ==
  IF o = 0 THEN "open"
  ELSE IF sys = "fstat" THEN "fstat"
  ELSE IF objects[o].size < FRAMEBUS_HEADER_SIZE THEN "tooSmall"
  ELSE IF sys = "mmap" THEN "mmap"
  ELSE IF objects[o].hdr.magic # FRAMEBUS_MAGIC_LE
          \/ objects[o].hdr.header_size # FRAMEBUS_HEADER_SIZE THEN "invalid"
  ELSE "none"

\* runPlayback, lines 1956-1958: the geometry check on the opened channel.
FrameBusMismatch(hdr) ==
  \/ hdr.frame_size # expectedBytes
  \/ hdr.width # Geometry.width
  \/ hdr.height # Geometry.height

\* runPlayback, lines 1949-1971: the channel is opened and checked.  A failed
\* open, a mismatch and a wrong pixel format each set the stop flag and
\* leave the branch; otherwise the polling loop starts.
DeckLinkOpenSource ==
  /\ proc.helper = "decklink" /\ proc.pc = "source"
  /\ \E sys \in SysOutcomes : \E r \in {openFrameBusReader(nameObj, objs, sys)} :
       IF r # "none"
         THEN /\ proc' = [proc EXCEPT !.pc = "shutdown", !.cause = r]
              /\ gShouldExit' = TRUE
         ELSE IF FrameBusMismatch(objs[nameObj].hdr)
           THEN /\ proc' = [proc EXCEPT !.pc = "shutdown", !.cause = "mismatch",
                                        !.reader = "closed"]
                /\ gShouldExit' = TRUE
           ELSE IF objs[nameObj].hdr.pixel_format # FRAMEBUS_PIXELFORMAT_RGBA8
             THEN /\ proc' = [proc EXCEPT !.pc = "shutdown", !.cause = "format",
                                          !.reader = "closed"]
                  /\ gShouldExit' = TRUE
             ELSE /\ proc' = [proc EXCEPT !.pc = "poll", !.reader = "open"]
                  /\ gShouldExit' = gShouldExit
  /\ UNCHANGED <<state, sink, ingest, pushed, popCount, lastPop, tick>>
  /\ UNCHANGED <<ringVars, lifeVars, streamVars, conv, fwd, pipe, mutex>>

\* runPlayback, lines 1972-1989: the polling loop ends when the stop flag is
\* set and the reader is closed.  Nothing is written to the channel here, so
\* a pass of the loop body finds no new sequence and changes nothing.
DeckLinkPollExit ==
  /\ proc.helper = "decklink" /\ proc.pc = "poll"
  /\ gShouldExit
  /\ proc' = [proc EXCEPT !.pc = "shutdown", !.reader = "closed"]
  /\ UNCHANGED playVars
  /\ UNCHANGED <<ringVars, lifeVars, streamVars, conv, fwd, pipe, mutex>>

\* runPlayback, lines 2065-2082: StopScheduledPlayback, DisableVideoOutput,
\* the callback is cleared, everything is released, return 0.
DeckLinkShutdown ==
  /\ proc.helper = "decklink" /\ proc.pc = "shutdown"
  /\ proc' = [proc EXCEPT !.pc = "exited", !.exit = 0]
  /\ sink' = [sink EXCEPT !.stopped = TRUE, !.playing = FALSE,
                          !.callback = FALSE]
  /\ ingest' = "done"
  /\ UNCHANGED <<state, gShouldExit, pushed, popCount, lastPop, tick>>
  /\ UNCHANGED <<ringVars, lifeVars, streamVars, conv, fwd, pipe, mutex>>

\* openFrameBusReader of display-helper (lines 44-95).
displayOpenFrameBusReader(o, objects, sys) ==
  IF o = 0 THEN "open"
  ELSE IF sys = "fstat" THEN "fstat"
  ELSE IF objects[o].size < FRAMEBUS_HEADER_SIZE THEN "tooSmall"
  ELSE IF sys = "mmap" THEN "mmap"
  ELSE IF objects[o].hdr.magic # FRAMEBUS_MAGIC_LE
          \/ objects[o].hdr.header_size # FRAMEBUS_HEADER_SIZE THEN "invalid"
  ELSE "none"

\* display-helper main, lines 171-250, started with a name, a width and a
\* height: the channel is opened, its width, height and pixel format are
\* checked, SDL is set up and ready is printed.  Each failure returns 1.
DisplayStart ==
  /\ proc.helper = "display" /\ proc.pc = "start"
  /\ \E sys \in SysOutcomes, env \in SdlEnvs :
     \E r \in {displayOpenFrameBusReader(nameObj, objs, sys)} :
       IF r # "none"
         THEN proc' = [proc EXCEPT !.pc = "exited", !.exit = 1, !.cause = r,
                                   !.env = env]
         ELSE IF \/ objs[nameObj].hdr.width # Geometry.width
                 \/ objs[nameObj].hdr.height # Geometry.height
           THEN proc' = [proc EXCEPT !.pc = "exited", !.exit = 1,
                                     !.cause = "mismatch", !.reader = "closed",
                                     !.env = env]
           ELSE IF objs[nameObj].hdr.pixel_format # FRAMEBUS_PIXELFORMAT_RGBA8
             THEN proc' = [proc EXCEPT !.pc = "exited", !.exit = 1,
                                       !.cause = "format", !.reader = "closed",
                                       !.env = env]
             ELSE IF ~env.sdl
               THEN proc' = [proc EXCEPT !.pc = "exited", !.exit = 1,
                                         !.cause = "sdl", !.reader = "closed",
                                         !.env = env]
               ELSE proc' = [proc EXCEPT !.pc = "poll", !.ready = TRUE,
                                         !.reader = "open", !.env = env]
  /\ UNCHANGED playVars
  /\ UNCHANGED <<ringVars, lifeVars, streamVars, conv, fwd, pipe, mutex>>

\* display-helper main, lines 258-315: the loop ends when the stop flag is
\* set; the reader is closed and main returns 0.
DisplayPollExit ==
  /\ proc.helper = "display" /\ proc.pc = "poll"
  /\ gShouldExit
  /\ proc' = [proc EXCEPT !.pc = "exited", !.exit = 0, !.reader = "closed"]
  /\ UNCHANGED playVars
  /\ UNCHANGED <<ringVars, lifeVars, streamVars, conv, fwd, pipe, mutex>>

\* A signal, or SDL_QUIT in display-helper, sets the stop flag of a running
\* helper.
SetupSignal ==
  /\ proc.pc # "exited"
  /\ handleSignal

\* What is linked under the name when the helper starts: an object too
\* small for a descriptor, or a whole object whose magic, header_size,
\* width, height, frame_size and pixel_format are each right or wrong.
SetupObjects ==
  {[size |-> FRAMEBUS_HEADER_SIZE \div 2, hdr |-> ZeroHeader, slots |-> <<>>,
    last |-> <<>>, freed |-> FALSE]}
  \cup
  {[size |-> TotalSize(frame_size, 2),
    hdr |-> [InitHeader(2) EXCEPT !.magic = m, !.header_size = hs,
                                  !.width = w, !.height = h,
                                  !.frame_size = fs, !.pixel_format = pf],
    slots |-> Truncate(<<>>, 2), last |-> <<>>, freed |-> FALSE] :
     m \in {FRAMEBUS_MAGIC_LE, 0},
     hs \in {FRAMEBUS_HEADER_SIZE, FRAMEBUS_HEADER_SIZE \div 2},
     w \in {Geometry.width, Geometry.width + 1},
     h \in {Geometry.height, Geometry.height + 1},
     fs \in {expectedBytes, expectedBytes + 1},
     pf \in {FRAMEBUS_PIXELFORMAT_RGBA8, FRAMEBUS_PIXELFORMAT_RGBA8 + 1}}

InitSetup ==
  /\ RingUnused /\ StreamUnused
  /\ \/ nameObj = 0 /\ objs = <<>>
     \/ \E obj \in SetupObjects : nameObj = 1 /\ objs = <<obj>>
  /\ handles = <<>>
  /\ lifeWrites = 0
  /\ lifeOp = NoLifeOp
  /\ state = PlaybackStateInit
  /\ sink = [SinkInit EXCEPT !.callback = FALSE]
  /\ gShouldExit = FALSE
  /\ ingest = "running"
  /\ pushed = <<>>
  /\ popCount = 0
  /\ lastPop = [ok |-> FALSE, out |-> <<>>]
  /\ tick = NoTick
  /\ conv = NoConv
  /\ fwd = NoFwd
  /\ pipe = NoPipe
  /\ mutex = NoMutex
  /\ \E k \in {"decklink", "display"} :
       proc = [NoProc EXCEPT !.helper = k, !.pc = "start"]

NextSetup ==
  \/ DeckLinkSetup
  \/ DeckLinkOpenSource
  \/ DeckLinkPollExit
  \/ DeckLinkShutdown
  \/ DisplayStart
  \/ DisplayPollExit
  \/ SetupSignal

SpecSetup == InitSetup /\ [][NextSetup]_vars

\* The channel named at startup is absent, or its descriptor is invalid
\* (too small, bad magic or header size) or does not match the helper's
\* configuration (width, height, frame size, pixel format).
BadChannel ==
  \/ NotOpenable
  \/ objs[nameObj].hdr.width # Geometry.width
  \/ objs[nameObj].hdr.height # Geometry.height
  \/ objs[nameObj].hdr.frame_size # expectedBytes
  \/ objs[nameObj].hdr.pixel_format # FRAMEBUS_PIXELFORMAT_RGBA8

\* C15: a consuming helper started on a channel that is absent, invalid or
\* mismatched ends with a non-zero exit status.
C15_BadChannelExitsNonZero ==
  (proc.pc = "exited" /\ BadChannel) => proc.exit # 0

\* C20: when findDisplayMode finds no mode or EnableVideoOutput is rejected,
\* runPlayback returns a non-zero status, and it has not printed ready, set
\* the completion callback, opened the channel, enqueued a frame or
\* submitted one to the sink.
C20_SetupFailureIsSilent ==
  (proc.helper = "decklink" /\ proc.pc # "start"
     /\ (~proc.env.mode \/ ~proc.env.enable))
  => /\ proc.pc = "exited" /\ proc.exit # 0
     /\ ~proc.ready
     /\ ~sink.callback
     /\ proc.reader = "none"
     /\ pushed = <<>>
     /\ sink.scheduled = <<>> /\ sink.inFlight = 0 /\ ~sink.playing

\* C20 witness: a setup that passed every check before EnableVideoOutput
\* and ended with status 1 because the output could not be enabled.
C20_Witness ==
  /\ proc.pc = "exited" /\ proc.exit = 1
  /\ proc.cause = "enable" /\ ~proc.env.enable

-----------------------------------------------------------------------------
(* SpecPlay: the stop of playback and the preroll.                          *)

\* C16: no ScheduleVideoFrame call is made once StopScheduledPlayback has
\* been called, whatever completion notifications the sink delivers during
\* or after the stop.
C16_NoSubmitAfterStop == ~sink.lateCall

\* C17: started implies prerollScheduled >= prerollTarget, prerollScheduled
\* never exceeds prerollTarget, and the step that sets started is taken with
\* exactly prerollTarget frames dequeued from the queue and accepted by the
\* sink.
C17_StartAfterPreroll ==
  /\ [](state.started => state.prerollScheduled >= prerollTarget)
  /\ [](state.prerollScheduled <= prerollTarget)
  /\ [][(~state.started /\ state'.started)
          => /\ state'.prerollScheduled = prerollTarget
             /\ Len(sink'.scheduled) = prerollTarget
             /\ popCount' >= prerollTarget
             /\ \A i \in 1..prerollTarget : sink'.scheduled[i].frame \in Frames]_vars

\* C17 witness: playback started after a preroll in which one dequeued frame
\* was refused, so that four frames were dequeued for three submissions.
C17_Witness ==
  /\ state.started
  /\ state.prerollScheduled = prerollTarget
  /\ Len(sink.scheduled) = prerollTarget
  /\ popCount = prerollTarget + 1
  /\ state.completedFrames = 0

-----------------------------------------------------------------------------
(* SpecSource: the polling loop of decklink-helper on a channel that one    *)
(* writer writes.  A pass loads seq; when there is something new it copies  *)
(* the slot, pushes the copy on the queue and calls maybeStartPlayback.     *)
(* display-helper's loop makes the same test and renders the slot instead.  *)

\* The test of the polling loop without the comparison with lastSeq.
Forwardable_NonZero(s, last) == s # 0

\* if (seq == 0 || seq == lastSeq) { sleep; continue; }
Forwardable(s, last) == ~(s = 0 \/ s = last)

\* One pass of the loop up to the memcpy: nothing but the sleep when the
\* test fails, else lastSeq = seq and the copy of the slot starts.
SourcePoll ==
  /\ cpc = "idle"
  /\ ~gShouldExit
  /\ IF Forwardable(seq, lastSeq)
       THEN /\ cseq' = seq
            /\ lastSeq' = seq
            /\ cbuf' = UniformFrame(0)
            /\ cchunk' = 0
            /\ cpc' = "copy"
            /\ fwd' = [fwd EXCEPT !.poll = "new"]
       ELSE /\ UNCHANGED <<cseq, lastSeq, cbuf, cchunk, cpc>>
            /\ fwd' = [fwd EXCEPT !.poll = "idle"]
  /\ UNCHANGED <<accepted, discarded>>
  /\ UNCHANGED <<headerVars, histVars, writerVars, readerVars>>
  /\ UNCHANGED <<lifeVars, playVars, streamVars, conv, proc, pipe, mutex>>

\* state.queue.push(std::move(frameBuffer)); maybeStartPlayback();
SourcePush(outs, startOk) ==
  /\ cpc = "copied"
  /\ \E w \in {maybeStartPlayback([state EXCEPT !.queue = push(@, cbuf)], sink,
                                    outs, startOk)} :
       /\ state' = w.state
       /\ sink' = w.sink
       /\ popCount' = popCount + w.pops
  /\ pushed' = Append(pushed, cbuf)
  /\ fwd' = [seqs |-> Append(fwd.seqs, cseq), poll |-> "pushed"]
  /\ cpc' = "idle"
  /\ UNCHANGED <<cseq, cbuf, cchunk, lastSeq, accepted, discarded>>
  /\ UNCHANGED <<headerVars, histVars, writerVars, readerVars>>
  /\ UNCHANGED <<gShouldExit, ingest, lastPop, tick>>
  /\ UNCHANGED <<lifeVars, streamVars, conv, proc, pipe, mutex>>

\* A channel of two slots, and a writer that passes no timestamp and fills
\* each frame with the number of the write.
InitSource == InitRing /\ slot_count = 2

SourceWrite == WriterLoadSeq(UniformFrame(Len(hist) + 1), FALSE)

NextSource ==
  \/ SourceWrite
  \/ WriterCopy
  \/ WriterPublish
  \/ SourcePoll
  \/ ConsumerCopy
  \/ \E outs \in PrerollOutcomes, startOk \in BOOLEAN : SourcePush(outs, startOk)
  \/ handleSignal

SpecSource == InitSource /\ [][NextSource]_vars

\* C18: every forwarded sequence is non-zero and greater than the one
\* forwarded before it, so none is forwarded twice; one frame is enqueued
\* per forwarded sequence; a step enqueues only for a loaded sequence that
\* is non-zero and was not the last one forwarded; and a pass of the loop
\* made while the sequence is the last one forwarded (or still 0) enqueues
\* nothing and starts no copy.
C18_ForwardOnce ==
  /\ [](/\ \A i \in 1..Len(fwd.seqs) : fwd.seqs[i] # 0
        /\ \A i \in 1..Len(fwd.seqs), j \in 1..Len(fwd.seqs) :
             i < j => fwd.seqs[i] < fwd.seqs[j]
        /\ Len(pushed) = Len(fwd.seqs))
  /\ [][/\ pushed' # pushed
           => /\ cseq # 0
              /\ fwd.seqs # <<>> => cseq # fwd.seqs[Len(fwd.seqs)]
              /\ fwd'.seqs = Append(fwd.seqs, cseq)
        /\ (cpc = "idle" /\ fwd'.poll = "idle" /\ (seq = 0 \/ seq = lastSeq))
           => /\ pushed' = pushed /\ state' = state /\ sink' = sink
              /\ cpc' = "idle" /\ fwd'.seqs = fwd.seqs
        /\ (cpc = "idle" /\ seq' = seq /\ (seq = 0 \/ seq = lastSeq))
           => /\ pushed' = pushed /\ cpc' = "idle"]_vars

\* C18 witness: two sequences were forwarded, the writer is idle and the
\* pass made after the second one found nothing new.
C18_Witness ==
  /\ Len(fwd.seqs) = 2
  /\ fwd.poll = "idle"
  /\ wpc = "idle" /\ cpc = "idle"
  /\ seq = lastSeq

-----------------------------------------------------------------------------
(* SpecRing: readLatest called again and again.                             *)

\* No step of writeFrame was taken since the call that returned res loaded
\* its sequence: the writer is idle and has started as many writes as the
\* sequence that call loaded.
NoWriteSince(res) ==
  /\ res.kind \in {"frame", "null"}
  /\ wpc = "idle"
  /\ Len(hist) = res.seq

\* C19: a step of readLatest changes no descriptor field and no slot byte,
\* and a readLatest that returns with no step of writeFrame taken since the
\* call before it returns what that call returned: the same bytes, sequence
\* and timestamp, or null again.
C19_ReadLatestIdempotent ==
  [][rpc' # rpc
       => /\ UNCHANGED headerVars
          /\ (rpc = "loaded" /\ NoWriteSince(rdResult)) => rdResult' = rdResult]_vars

\* C19 witness: a frame was returned, nothing was written since, and the
\* call after it has loaded the sequence and is about to return; the second
\* slot of the ring has been written, so the frame is not the first one.
C19_Witness ==
  /\ rdResult.kind = "frame"
  /\ rdResult.seq = slot_count + 1
  /\ NoWriteSince(rdResult)
  /\ rpc = "loaded"
  /\ rseq = rdResult.seq
  /\ rdResult.ts # 0

-----------------------------------------------------------------------------
(* SpecCancel: the loops of the helpers and the stop flag.  The polling     *)
(* loops of decklink-helper and display-helper test the flag and then make  *)
(* one pass that sleeps or forwards.  The stdin loop of decklink-helper     *)
(* tests the flag and then reads; a read returns when the bytes it asks for *)
(* are there or the producer has closed the pipe.                           *)

\* What the producer writes in one piece: a valid frame, the header of a
\* valid frame without its payload, a shutdown header.
OneFrame == CHOOSE rec \in ValidFrames : TRUE

ProducerWrites ==
  {RecordBytes(OneFrame), SubSeq(RecordBytes(OneFrame), 1, kFrameHeaderSize)}
  \cup {RecordBytes(rec) : rec \in {r \in OtherRecords : r.kind = "shutdown"}}

ProducerSend(bytes) ==
  /\ pipe.open
  /\ pipe.sent < MaxItems
  /\ stream' = stream \o bytes
  /\ pipe' = [pipe EXCEPT !.sent = @ + 1]
  /\ UNCHANGED <<pos, exitReason, items, iters>>
  /\ UNCHANGED <<ringVars, lifeVars, playVars, conv, proc, fwd, mutex>>

ProducerClose ==
  /\ pipe.open
  /\ pipe' = [pipe EXCEPT !.open = FALSE]
  /\ UNCHANGED <<ringVars, lifeVars, playVars, streamVars, conv, proc, fwd, mutex>>

\* readExact (lines 710-726): read() waits while no byte is there and the
\* pipe is open, and a read that a signal interrupts is made again.  The
\* reads of one pass wait when the input runs out before the pass is done.
OutOfInput(bytes, at) ==
  LoopBody(bytes, at).exit \in {"eof", "payloadEof", "discardEof"}

\* A read that waits for bytes on a closed pipe too.
ReadWaits_AfterClose(bytes, at, open) == OutOfInput(bytes, at)

ReadWaits(bytes, at, open) == open /\ OutOfInput(bytes, at)

\* while (!gShouldExit.load()) of the stdin loop, flag not set: the pass
\* starts with the read of a header.
StdinEnter ==
  /\ proc.pc = "stdinTest"
  /\ ~gShouldExit
  /\ proc' = [proc EXCEPT !.pc = "stdinRead"]
  /\ UNCHANGED <<ringVars, lifeVars, playVars, streamVars, conv, fwd, pipe, mutex>>

\* The pass of the stdin loop (lines 1999-2062) once its reads can return.
StdinPass(outs, startOk) ==
  /\ proc.pc = "stdinRead"
  /\ ~ReadWaits(stream, pos, pipe.open)
  /\ StreamPass(outs, startOk)
  /\ proc' = [proc EXCEPT !.pc = IF exitReason' = "none" THEN "stdinTest"
                                                           ELSE "shutdown"]
  /\ UNCHANGED <<conv, fwd, pipe, mutex>>

\* while (!gShouldExit.load()) of the stdin loop, flag set.
StdinExit ==
  /\ proc.pc = "stdinTest"
  /\ gShouldExit
  /\ exitReason' = "stopFlag"
  /\ proc' = [proc EXCEPT !.pc = "shutdown"]
  /\ UNCHANGED <<stream, pos, items, iters>>
  /\ UNCHANGED <<ringVars, lifeVars, playVars, conv, fwd, pipe, mutex>>

\* while (!gShouldExit.load()) of a polling loop, flag not set.
PollEnter ==
  /\ proc.pc = "poll"
  /\ ~gShouldExit
  /\ proc' = [proc EXCEPT !.pc = "pollBody"]
  /\ UNCHANGED <<ringVars, lifeVars, playVars, streamVars, conv, fwd, pipe, mutex>>

\* The pass of a polling loop on a channel nobody writes: seq is 0 or
\* lastSeq, the loop sleeps a millisecond and goes back to the test
\* (decklink-helper lines 1974-1978, display-helper lines 259-267).
PollBody ==
  /\ proc.pc = "pollBody"
  /\ proc' = [proc EXCEPT !.pc = "poll"]
  /\ UNCHANGED <<ringVars, lifeVars, playVars, streamVars, conv, fwd, pipe, mutex>>

\* The helper in one of its loops, ready printed: decklink-helper polling a
\* channel or reading stdin, display-helper polling a channel.
LoopStarts ==
  {[NoProc EXCEPT !.helper = "decklink", !.pc = "poll", !.ready = TRUE,
                  !.reader = "open"],
   [NoProc EXCEPT !.helper = "decklink", !.pc = "stdinTest", !.ready = TRUE],
   [NoProc EXCEPT !.helper = "display", !.pc = "poll", !.ready = TRUE,
                  !.reader = "open"]}

InitCancel ==
  /\ RingUnused /\ LifeStart /\ PlayStart /\ StreamUnused
  /\ conv = NoConv /\ fwd = NoFwd
  /\ proc \in LoopStarts
  /\ pipe = IF proc.pc = "stdinTest" THEN [NoPipe EXCEPT !.open = TRUE] ELSE NoPipe
  /\ mutex = NoMutex

\* The steps of the loop's own thread.
LoopOwnStep ==
  \/ StdinEnter
  \/ \E outs \in PrerollOutcomes, startOk \in BOOLEAN : StdinPass(outs, startOk)
  \/ StdinExit
  \/ PollEnter
  \/ PollBody
  \/ DeckLinkPollExit
  \/ DisplayPollExit

NextCancel ==
  \/ LoopOwnStep
  \/ \E bytes \in ProducerWrites : ProducerSend(bytes)
  \/ ProducerClose
  \/ handleSignal

\* The loop's thread keeps running; the producer may write, close or do
\* neither.
SpecCancel == InitCancel /\ [][NextCancel]_vars /\ WF_vars(LoopOwnStep)

LoopLeft == proc.pc \in {"shutdown", "exited"}

\* C21: once the stop flag is set, the loop the helper is in is left, by the
\* steps of its own thread alone.
C21_StopEndsLoops == gShouldExit ~> LoopLeft

\* The stdin loop is inside a read whose bytes have not all arrived, on a
\* pipe the producer has not closed.
WaitingForProducer ==
  proc.pc = "stdinRead" /\ pipe.open /\ OutOfInput(stream, pos)

\* C21, amended: once the stop flag is set, a polling loop is left by the
\* steps of its own thread alone, and so is the stdin loop unless it is
\* waiting in a read; a stdin loop waiting in a read is left once the
\* producer has written the rest of the record or closed the pipe.
C21_StopEndsLoopsNotWaiting ==
  (gShouldExit /\ ~WaitingForProducer) ~> LoopLeft

\* C21 witness: the stdin loop was left because of the stop flag, after it
\* had ingested a frame.
C21_Witness ==
  /\ proc.pc = "shutdown"
  /\ exitReason = "stopFlag"
  /\ pushed # <<>>

-----------------------------------------------------------------------------
(* SpecPlay: the phases of the scheduler.  The code keeps no phase; it is   *)
(* read off started, the frames ingested and the stop.                      *)

Phase ==
  IF sink.stopped THEN "Stopped"
  ELSE IF state.started THEN "Running"
  ELSE IF pushed # <<>> THEN "Prerolling"
  ELSE "Idle"

PhaseRank(ph) ==
  CASE ph = "Idle" -> 0
    [] ph = "Prerolling" -> 1
    [] ph = "Running" -> 2
    [] ph = "Stopped" -> 3

\* C22: the phase never goes back in the order Idle, Prerolling, Running,
\* Stopped; Running is entered only by an ingestion step that leaves the
\* preroll target reached and the sink playing; while the sink has not
\* accepted the start, started stays false; and started, once true, stays
\* true.
C22_PhaseOrder ==
  /\ [](sink.playing => state.started)
  /\ []((state.started /\ ~sink.stopped) => sink.playing)
  /\ [][/\ PhaseRank(Phase') >= PhaseRank(Phase)
        /\ (Phase # "Running" /\ Phase' = "Running")
           => /\ Phase = "Prerolling" \/ Phase = "Idle"
              /\ pushed' # pushed
              /\ state'.prerollScheduled >= prerollTarget
              /\ sink'.playing
        /\ state.started => state'.started]_vars

\* C22 witness: playback that was started has been stopped, after more
\* frames were ingested than the preroll took.
C22_Witness ==
  /\ Phase = "Stopped"
  /\ state.started
  /\ Len(pushed) > prerollTarget
  /\ popCount = prerollTarget

-----------------------------------------------------------------------------
(* SpecPlay: the output times.                                              *)

\* C23: nextFrameTime is frameDuration times the number of frames the sink
\* has accepted, and the i-th accepted frame was submitted for the time
\* (i - 1) * frameDuration: the times go up by frameDuration, with no gap
\* and no duplicate, whatever conversions and submits failed in between.
C23_OutputTimes ==
  /\ state.frameDuration > 0
  /\ state.nextFrameTime = state.frameDuration * Len(sink.scheduled)
  /\ \A i \in 1..Len(sink.scheduled) :
       sink.scheduled[i].time = state.frameDuration * (i - 1)

\* C23 witness: a completion whose submit the sink refused, after the
\* preroll and one more frame were accepted.
C23_Witness ==
  /\ tick.n > 0
  /\ tick.passed # <<>>
  /\ tick.outcome = "submitFail"
  /\ ~tick.ok
  /\ Len(sink.scheduled) = prerollTarget + 1

-----------------------------------------------------------------------------
(* SpecPlay: the completion counters.                                       *)

\* The number of y that are x.
Count(x, y) == IF x = y THEN 1 ELSE 0

\* C24: completedFrames is the number of completion notifications handled
\* (the frames the sink accepted less those it still holds), lateFrames +
\* droppedFrames never exceeds it, and every notification adds 1 to
\* completedFrames, 1 to lateFrames exactly when the result is displayed
\* late, and 1 to droppedFrames exactly when it is dropped or flushed.
C24_CompletionCounters ==
  /\ [](/\ state.completedFrames = Len(sink.scheduled) - sink.inFlight
        /\ state.lateFrames + state.droppedFrames <= state.completedFrames)
  /\ [][(tick' # tick \/ sink'.inFlight < sink.inFlight \/ state'.completedFrames # state.completedFrames)
          => /\ tick'.result \in Results
             /\ state'.completedFrames = state.completedFrames + 1
             /\ state'.lateFrames = state.lateFrames + Count(tick'.result, "late")
             /\ state'.droppedFrames = state.droppedFrames + Count(tick'.result, "dropped")
                                         + Count(tick'.result, "flushed")]_vars

\* C24 witness: two notifications handled, one displayed late and then one
\* flushed.
C24_Witness ==
  /\ state.completedFrames = 2
  /\ state.lateFrames = 1
  /\ state.droppedFrames = 1
  /\ tick.result = "flushed"

-----------------------------------------------------------------------------
(* SpecPlay: the frame kept for the underrun repeat.                        *)

\* The most recent frame the sink accepted.
LastAccepted == sink.scheduled[Len(sink.scheduled)].frame

-----------------------------------------------------------------------------
(* SpecPlay: what one completion notification does.                         *)

\* The sink has a completion to deliver.
CompletionDue ==
  /\ sink.callback
  /\ sink.inFlight > 0
  /\ sink.playing \/ sink.stopped
  /\ state.completedFrames < MaxCompletions

CompletionStep ==
  \E result \in Results, outcome \in Outcomes : ScheduledFrameCompleted(result, outcome)

\* C26: a completion that is due can be handled in every state, whatever
\* the queue holds and wherever the ingestion thread is; handling it takes
\* the front of the queue when there is one and nothing otherwise, calls
\* the sink's submit at most once, and with nothing dequeued and nothing
\* retained it submits nothing.
C26_CompletionNeverWaits ==
  /\ [](CompletionDue => ENABLED CompletionStep)
  /\ [][tick' # tick
          => /\ state'.queue = IF state.queue = <<>> THEN <<>> ELSE Tail(state.queue)
             /\ popCount' = popCount + Count(state.queue = <<>>, FALSE)
             /\ tick'.wasEmpty = (state.queue = <<>>)
             /\ Len(sink'.scheduled) \in {Len(sink.scheduled), Len(sink.scheduled) + 1}
             /\ (state.queue = <<>> /\ ~state.hasLastFrame)
                  => (tick'.passed = <<>> /\ sink'.scheduled = sink.scheduled)
             /\ pushed' = pushed]_vars

\* C26 witness: a completion handled on an empty queue while frames were
\* still being ingested: it repeated the retained frame and a later frame
\* was ingested after it.
C26_Witness ==
  /\ tick.n > 0
  /\ tick.wasEmpty
  /\ tick.ok
  /\ ingest = "running"
  /\ state.queue # <<>>


(***************************************************************************)
(* SpecMutex: FrameQueue::push and FrameQueue::pop statement by statement, *)
(* made by two threads.  mutex.ids holds, for each queued frame, the       *)
(* number of the push that queued it; mutex.popped and mutex.evicted log   *)
(* the numbers of the frames popped and of those push dropped.             *)
(***************************************************************************)

MaxLocked == 5     \* pushes per behaviour of SpecMutex

\* A lock that never waits.
MutexFree_Always(m) == TRUE

\* std::lock_guard<std::mutex> lock(mutex): the constructor returns once no
\* thread holds the mutex.
MutexFree(m) == m.owner = "none"

\* frames.pop_front() on the deque
DropFront(q) == IF q = <<>> THEN q ELSE Tail(q)

\* push: the lock is taken.
PushEnter(frame) ==
  /\ Len(pushed) < MaxLocked
  /\ mutex.pc["ingestion"] = "idle"
  /\ MutexFree(mutex)
  /\ mutex' = [mutex EXCEPT !.owner = "ingestion",
                            !.pc["ingestion"] = "pushTest",
                            !.arg = frame]
  /\ UNCHANGED <<playVars, ringVars, lifeVars, streamVars, conv, proc, fwd, pipe>>

\* push: if (frames.size() >= kMaxQueuedFrames) frames.pop_front();
PushEvict ==
  /\ mutex.pc["ingestion"] = "pushTest"
  /\ IF Len(state.queue) >= kMaxQueuedFrames
       THEN /\ state' = [state EXCEPT !.queue = DropFront(@)]
            /\ mutex' = [mutex EXCEPT !.pc["ingestion"] = "pushBack",
                                      !.ids = DropFront(@),
                                      !.evicted = Append(@, Head(mutex.ids))]
       ELSE /\ mutex' = [mutex EXCEPT !.pc["ingestion"] = "pushBack"]
            /\ UNCHANGED state
  /\ UNCHANGED <<sink, gShouldExit, ingest, pushed, popCount, lastPop, tick>>
  /\ UNCHANGED <<ringVars, lifeVars, streamVars, conv, proc, fwd, pipe>>

\* push: frames.push_back(std::move(frame)); the guard unlocks on return.
PushBack ==
  /\ mutex.pc["ingestion"] = "pushBack"
  /\ state' = [state EXCEPT !.queue = Append(@, mutex.arg)]
  /\ pushed' = Append(pushed, mutex.arg)
  /\ mutex' = [mutex EXCEPT !.owner = "none",
                            !.pc["ingestion"] = "idle",
                            !.arg = <<>>,
                            !.ids = Append(@, Len(pushed) + 1)]
  /\ UNCHANGED <<sink, gShouldExit, ingest, popCount, lastPop, tick>>
  /\ UNCHANGED <<ringVars, lifeVars, streamVars, conv, proc, fwd, pipe>>

\* pop: the lock is taken.
PopEnter(t) ==
  /\ mutex.pc[t] = "idle"
  /\ MutexFree(mutex)
  /\ mutex' = [mutex EXCEPT !.owner = t, !.pc[t] = "popTest"]
  /\ UNCHANGED <<playVars, ringVars, lifeVars, streamVars, conv, proc, fwd, pipe>>

\* pop: if (frames.empty()) return false; out = std::move(frames.front());
PopFront(t) ==
  /\ mutex.pc[t] = "popTest"
  /\ IF state.queue = <<>>
       THEN /\ lastPop' = [ok |-> FALSE, out |-> <<>>]
            /\ mutex' = [mutex EXCEPT !.owner = "none", !.pc[t] = "idle"]
       ELSE /\ mutex' = [mutex EXCEPT !.pc[t] = "popFront",
                                      !.out[t] = Head(state.queue),
                                      !.outId[t] = Head(mutex.ids)]
            /\ UNCHANGED lastPop
  /\ UNCHANGED <<state, sink, gShouldExit, ingest, pushed, popCount, tick>>
  /\ UNCHANGED <<ringVars, lifeVars, streamVars, conv, proc, fwd, pipe>>

\* pop: frames.pop_front(); return true; the guard unlocks on return.
PopRemove(t) ==
  /\ mutex.pc[t] = "popFront"
  /\ state' = [state EXCEPT !.queue = DropFront(@)]
  /\ lastPop' = [ok |-> TRUE, out |-> mutex.out[t]]
  /\ popCount' = popCount + 1
  /\ mutex' = [mutex EXCEPT !.owner = "none",
                            !.pc[t] = "idle",
                            !.out[t] = <<>>,
                            !.outId[t] = 0,
                            !.ids = DropFront(@),
                            !.popped = Append(@, mutex.outId[t])]
  /\ UNCHANGED <<sink, gShouldExit, ingest, pushed, tick>>
  /\ UNCHANGED <<ringVars, lifeVars, streamVars, conv, proc, fwd, pipe>>

InitMutex == PlayStart /\ RingUnused /\ LifeStart /\ StreamUnused /\ AuxUnused

NextMutex ==
  \/ \E frame \in Frames : PushEnter(frame)
  \/ PushEvict
  \/ PushBack
  \/ \E t \in Threads : PopEnter(t)
  \/ \E t \in Threads : PopFront(t)
  \/ \E t \in Threads : PopRemove(t)

SpecMutex == InitMutex /\ [][NextMutex]_vars

\* The values a sequence holds.
Range(s) == {s[i] : i \in 1..Len(s)}

\* C27: under every interleaving of the threads' pushes and pops a thread is
\* inside a queue operation only while it holds the mutex; each frame pushed
\* is either queued, or popped once, or evicted, and in one of these only;
\* frames are popped in the order of their pushes, and the frame a pop
\* returns is the frame that was pushed.
C27_QueueAtomic ==
  /\ \A t \in Threads : mutex.pc[t] # "idle" => mutex.owner = t
  /\ Cardinality(Range(mutex.ids)) = Len(mutex.ids)
  /\ Cardinality(Range(mutex.popped)) = Len(mutex.popped)
  /\ Cardinality(Range(mutex.evicted)) = Len(mutex.evicted)
  /\ Range(mutex.ids) \cap Range(mutex.popped) = {}
  /\ Range(mutex.ids) \cap Range(mutex.evicted) = {}
  /\ Range(mutex.popped) \cap Range(mutex.evicted) = {}
  /\ Range(mutex.ids) \cup Range(mutex.popped) \cup Range(mutex.evicted)
       = 1..Len(pushed)
  /\ \A i, j \in 1..Len(mutex.popped) : i < j => mutex.popped[i] < mutex.popped[j]
  /\ Len(state.queue) = Len(mutex.ids)
  /\ \A i \in 1..Len(mutex.ids) : state.queue[i] = pushed[mutex.ids[i]]
  /\ popCount = Len(mutex.popped)
  /\ lastPop.ok => lastPop.out = pushed[mutex.popped[Len(mutex.popped)]]

\* A pop by the completion thread is between its two statements after two
\* frames were popped and one evicted, with frames still queued.
C27_Witness ==
  /\ mutex.pc["completion"] = "popFront"
  /\ Len(mutex.popped) >= 2
  /\ mutex.evicted # <<>>
  /\ Len(state.queue) >= 2


(***************************************************************************)
(* A submit the sink refuses, in the completion handler.                   *)
(***************************************************************************)

\* The last notification handled passed a frame to scheduleFrame and the
\* sink refused it.
SubmitRefused == tick.outcome = "submitFail" /\ tick.passed # <<>>

\* C28: a completion whose submit the sink refuses leaves started,
\* nextFrameTime and prerollScheduled as they were, takes from the queue the
\* one frame it popped and nothing else, and adds nothing to the sink's
\* schedule; after it the handler runs again whenever a completion is due,
\* takes the front of the queue or else the last frame, and passes it to
\* scheduleFrame.
C28_FailedSubmitAbandonsFrame ==
  /\ [][(tick' # tick /\ tick'.outcome = "submitFail" /\ tick'.passed # <<>>)
          => /\ ~tick'.ok
             /\ state'.started = state.started
             /\ state'.nextFrameTime = state.nextFrameTime
             /\ state'.prerollScheduled = state.prerollScheduled
             /\ state'.queue = DropFront(state.queue)
             /\ sink'.scheduled = sink.scheduled
             /\ sink'.inFlight = sink.inFlight - 1
             /\ sink'.playing = sink.playing]_vars
  /\ []((SubmitRefused /\ CompletionDue) => ENABLED CompletionStep)
  /\ [][(SubmitRefused /\ tick' # tick)
          => /\ tick'.passed # <<>>
             /\ tick'.passed = IF state.queue # <<>>
                                 THEN Head(state.queue)
                                 ELSE state.lastFrame
             /\ tick'.outcome = "ok" => tick'.ok]_vars

\* The sink refused the frame of the first notification during Running and
\* another completion is due.
C28_Witness ==
  /\ SubmitRefused
  /\ tick.running
  /\ ~tick.ok
  /\ CompletionDue
  /\ state.started


(***************************************************************************)
(* SpecStall: playback from the moment it has started, with every frame of *)
(* the preroll accepted, through more completions than the preroll holds   *)
(* frames.                                                                 *)
(***************************************************************************)

MaxStall == 3      \* completion notifications per behaviour of SpecStall

\* Every submit of the preroll accepted.
PrerollAccepted == [i \in 1..prerollTarget |-> "ok"]

\* The main loop's push and maybeStartPlayback for one frame, all accepted.
Ingested(w, frame) ==
  maybeStartPlayback([w.state EXCEPT !.queue = push(@, frame)], w.sink,
                     PrerollAccepted, TRUE)

\* The frames of fs ingested one after the other, from w.
RECURSIVE IngestedAll(_, _)
IngestedAll(w, fs) ==
  IF fs = <<>> THEN w ELSE IngestedAll(Ingested(w, Head(fs)), Tail(fs))

InitStall ==
  /\ \E fs \in [1..prerollTarget -> Frames] :
     \E w \in {IngestedAll([state |-> PlaybackStateInit, sink |-> SinkInit, pops |-> 0],
                           fs)} :
       /\ state = w.state
       /\ sink = w.sink
       /\ pushed = fs
       /\ popCount = prerollTarget
  /\ gShouldExit = FALSE
  /\ ingest = "running"
  /\ lastPop = [ok |-> FALSE, out |-> <<>>]
  /\ tick = NoTick
  /\ RingUnused /\ LifeStart /\ StreamUnused /\ AuxUnused

StallCompletion(result, outcome) ==
  /\ state.completedFrames < MaxStall
  /\ CompletionHandled(result, outcome)

NextStall ==
  \/ \E frame \in Frames, outs \in PrerollOutcomes, startOk \in BOOLEAN :
       IngestFrame(frame, outs, startOk)
  \/ \E result \in Results, outcome \in Outcomes : StallCompletion(result, outcome)
  \/ handleSignal
  \/ StopScheduledPlayback
  \/ ClearCallback

SpecStall == InitStall /\ [][NextStall]_vars

\* C29: while the scheduler is Running and no shutdown has been requested the
\* sink holds at least one frame submitted and not yet completed.
C29_NeverStalls ==
  (Phase = "Running" /\ ~gShouldExit /\ ingest = "running") => sink.inFlight > 0


(***************************************************************************)
(* The frames the polling loop copies out of the ring.  The frame with     *)
(* sequence s is hist[s]; it lies in slot (s - 1) % slot_count, which the  *)
(* writer fills again in the write that publishes s + slot_count.          *)
(***************************************************************************)

\* C30 as stated: every frame the polling loop enqueues is one of the frames
\* the writer wrote.
C30_FramesWhole ==
  \A i \in 1..Len(pushed) : \E k \in 1..Len(hist) : pushed[i] = hist[k]

\* The write that fills the slot of sequence s again has not begun.
NotLapped(s) == Len(hist) < s + slot_count

\* C30: the polling loop enqueues the buffer it copied, and that buffer is
\* the frame published with the sequence the loop loaded whenever the write
\* that reuses the frame's slot has not begun by the end of the copy; writes
\* to the other slots may interleave with the copy in any way.
C30_FramesWholeUnlessLapped ==
  /\ []((cpc = "copied" /\ NotLapped(cseq)) => cbuf = hist[cseq])
  /\ [][pushed' # pushed
          => /\ pushed' = Append(pushed, cbuf)
             /\ NotLapped(cseq) => cbuf = hist[cseq]]_vars

\* The copy of the frame of cseq is complete and whole while the writer is
\* in the middle of the write after it, and a frame was enqueued before.
C30_Witness ==
  /\ cpc = "copied"
  /\ cbuf = hist[cseq]
  /\ wpc = "copy" /\ wchunk > 0
  /\ Len(hist) = cseq + slot_count - 1
  /\ pushed # <<>>


-----------------------------------------------------------------------------
(* SpecAccess: the slot a consumer reads after its open has accepted the    *)
(* object linked under the name.  The object is any program's: its size     *)
(* and its descriptor fields are whatever that program left there.          *)

\* The consumers of a channel.
Accessors == {"readLatest", "decklink", "display"}

\* Objects with the magic and header_size of a channel whose size, slot
\* count, stride, frame size and sequence are those of a channel or not.
AccessObjects ==
  {[size |-> TotalSize(frame_size, room),
    hdr |-> [InitHeader(n) EXCEPT !.slot_stride = stride, !.frame_size = fs,
                                  !.seq = s],
    slots |-> Truncate(<<>>, room), last |-> <<>>, freed |-> FALSE] :
     room \in 0..2, n \in 0..2, stride \in {frame_size, 2 * frame_size},
     fs \in {frame_size, 2 * frame_size}, s \in 0..2}

\* The checks between shm_open and the first slot access: OpenReader for
\* readLatest, openFrameBusReader and the checks of runPlayback (lines
\* 1956-1971) for decklink-helper, openFrameBusReader and the checks of main
\* (lines 178-187) for display-helper.
OpenerAccepts(who, o, objects) ==
  IF who = "readLatest"
    THEN OpenAttempt(o, objects, "ok").ok
    ELSE /\ openFrameBusReader(o, objects, "ok") = "none"
         /\ objects[o].hdr.width = Geometry.width
         /\ objects[o].hdr.height = Geometry.height
         /\ objects[o].hdr.pixel_format = FRAMEBUS_PIXELFORMAT_RGBA8
         /\ who = "decklink" => ~FrameBusMismatch(objects[o].hdr)

\* The consumer reaches a slot: readLatest returns null when seq or
\* slot_count is 0; the polling loops sleep when seq is 0 (or lastSeq, 0 at
\* the first pass) and test nothing else.
ReachesSlot(who, hdr) ==
  IF who = "readLatest" THEN ~NoFrameYet(hdr.seq, hdr.slot_count) ELSE hdr.seq # 0

\* The bytes the consumer reads: frame_size bytes from
\* slots + slot_index * slot_stride, slots being base + FRAMEBUS_HEADER_SIZE.
\* With slot_count = 0 the remainder is a division by zero (count 0, no span).
SlotSpan(hdr) ==
  IF hdr.slot_count = 0
    THEN [count |-> 0, first |-> 0, end |-> 0]
    ELSE [count |-> hdr.slot_count,
          first |-> FRAMEBUS_HEADER_SIZE
                      + ReadSlotIndex(hdr.seq, hdr.slot_count) * hdr.slot_stride,
          end |-> FRAMEBUS_HEADER_SIZE
                    + ReadSlotIndex(hdr.seq, hdr.slot_count) * hdr.slot_stride
                    + hdr.frame_size]

\* One consumer opens the channel and makes its first slot access.
ChannelAccess(who) ==
  /\ OpenerAccepts(who, nameObj, objs)
  /\ ReachesSlot(who, objs[nameObj].hdr)
  /\ conv' = [op |-> who, in |-> objs[nameObj].hdr.seq,
              out |-> SlotSpan(objs[nameObj].hdr)]
  /\ UNCHANGED <<proc, fwd, pipe, mutex>>
  /\ UNCHANGED notAux

InitAccess ==
  /\ RingUnused /\ PlayStart /\ StreamUnused /\ AuxUnused
  /\ \E obj \in AccessObjects : nameObj = 1 /\ objs = <<obj>>
  /\ handles = <<>>
  /\ lifeWrites = 0
  /\ lifeOp = NoLifeOp

NextAccess == \E who \in Accessors : ChannelAccess(who)

SpecAccess == InitAccess /\ [][NextAccess]_vars

\* C31: every slot access made after an accepted open computes its index
\* with slot_count > 0 and reads inside the mapping.
C31_AccessInBounds ==
  conv.op \in Accessors
    => /\ conv.out.count > 0
       /\ conv.out.end <= objs[nameObj].size


-----------------------------------------------------------------------------
(* SpecFinalize: close called again, writeFrame and readLatest after close, *)
(* and the finalizer the runtime runs when the wrapper object is collected. *)
(* WriterClose calls FinalizeHandle, which deletes the handle, and then     *)
(* napi_wrap(env, this_arg, nullptr, ...): the object is wrapped already,   *)
(* so that call fails and the wrap made by CreateWriter or OpenReader, with *)
(* its finalizer, stays and points at the deleted handle.  A handle with    *)
(* st = "closed" is such a deleted handle that its wrapper still refers to. *)

\* What FinalizeHandle releases of a live handle.
Released(handle) ==
  {"map", "fd", "handle"} \cup (IF Unlinks(handle) THEN {"name"} ELSE {})

\* FinalizeHandle run on a deleted handle: base, size, fd, is_writer and
\* name are read from freed memory, so each release is made again or not;
\* delete handle is made in any case.
ReleasedAgain(handle) ==
  {held \in SUBSET {"map", "fd", "name", "handle"} : "handle" \in held}

\* close() on a wrapper whose handle was deleted by an earlier close:
\* napi_unwrap yields the old pointer, which is not null.
CloseAgain(h) ==
  /\ h \in DOMAIN handles
  /\ handles[h].st = "closed"
  /\ \E held \in ReleasedAgain(handles[h]) :
       /\ lifeOp' = [op |-> "close", h |-> h, seq |-> 0, err |-> "useAfterFree",
                     held |-> held, bytes |-> <<>>]
       /\ nameObj' = IF "name" \in held THEN 0 ELSE nameObj
  /\ objs' = [o \in DOMAIN objs |-> Reclaim(objs[o], o, nameObj', handles)]
  /\ UNCHANGED <<handles, lifeWrites>>
  /\ UNCHANGED notLife

\* writeFrame or readLatest on a wrapper whose handle was deleted: the test
\* !handle || !handle->header reads the deleted handle.
CallAfterClose(h) ==
  /\ h \in DOMAIN handles
  /\ handles[h].st = "closed"
  /\ lifeOp.h # h \/ lifeOp.op \notin {"writeFrame", "readLatest"}
       \/ lifeOp.err # "useAfterFree"
  /\ lifeOp' = [op |-> IF handles[h].is_writer THEN "writeFrame" ELSE "readLatest",
                h |-> h, seq |-> 0, err |-> "useAfterFree", held |-> {},
                bytes |-> <<>>]
  /\ UNCHANGED <<nameObj, objs, handles, lifeWrites>>
  /\ UNCHANGED notLife

\* The runtime collects the wrapper and calls its finalizer, FinalizeHandle,
\* with the pointer given to napi_wrap at creation.
CollectWrapper(h) ==
  /\ h \in DOMAIN handles
  /\ handles[h].st \in {"open", "closed"}
  /\ handles' = [handles EXCEPT ![h].st = "collected"]
  /\ IF handles[h].st = "open"
       THEN /\ lifeOp' = [op |-> "finalize", h |-> h, seq |-> 0, err |-> "none",
                          held |-> Released(handles[h]), bytes |-> <<>>]
            /\ nameObj' = IF Unlinks(handles[h]) THEN 0 ELSE nameObj
       ELSE \E held \in ReleasedAgain(handles[h]) :
              /\ lifeOp' = [op |-> "finalize", h |-> h, seq |-> 0,
                            err |-> "useAfterFree", held |-> held, bytes |-> <<>>]
              /\ nameObj' = IF "name" \in held THEN 0 ELSE nameObj
  /\ objs' = [o \in DOMAIN objs |-> Reclaim(objs[o], o, nameObj', handles')]
  /\ UNCHANGED lifeWrites
  /\ UNCHANGED notLife

NextFinalize ==
  \/ \E n \in LifeSlotCounts : CreateWriter(n)
  \/ OpenReader("ok")
  \/ \E h \in 1..MaxHandles : Close(h)
  \/ \E h \in 1..MaxHandles : CloseAgain(h)
  \/ \E h \in 1..MaxHandles : CallAfterClose(h)
  \/ \E h \in 1..MaxHandles : CollectWrapper(h)

SpecFinalize == InitLife /\ [][NextFinalize]_vars

\* C32: no call and no finalizer run touches a handle that was released.
C32_ReleasedOnce == lifeOp.err # "useAfterFree"


-----------------------------------------------------------------------------
(* The timestamp readLatest returns.  Write number k of SpecRing passes k   *)
(* as its timestamp when it passes one, and publishes sequence k.           *)

\* C33 as stated: the timestamp returned with sequence S is the one of the
\* write that published S.
C33_TimestampOfSequence ==
  rdResult.kind = "frame" => rdResult.ts = rdResult.seq

\* C33: readLatest returns the value last_write_ns has when the call loads
\* it, which is the timestamp of the latest write that has stored one (0
\* when none has).  When the write that published the sequence returned is
\* the latest write begun and is complete, the timestamp is that write's if
\* it supplied one, and that of an earlier write (or 0) if it did not.
C33_TimestampIsLastStored ==
  [][(rpc = "loaded" /\ rdResult'.kind = "frame" /\ rpc' = "idle")
       => /\ rdResult'.ts = last_write_ns
          /\ rdResult'.ts <= Len(hist)
          /\ (wpc = "idle" /\ Len(hist) = rseq /\ wts.has) => rdResult'.ts = rseq
          /\ (wpc = "idle" /\ Len(hist) = rseq /\ ~wts.has) => rdResult'.ts < rseq]_vars

\* The third write is complete and readLatest has returned its frame with
\* the timestamp that write supplied.
C33_Witness ==
  /\ rdResult.kind = "frame"
  /\ rdResult.seq = 3
  /\ rdResult.ts = 3
  /\ wpc = "idle"
  /\ Len(hist) = 3


-----------------------------------------------------------------------------
(* SpecOrder: ingestion running ahead of the sink, so that the queue holds  *)
(* several frames and evicts, from the first frame on.                      *)

MaxOrdered == 8    \* frames ingested per behaviour of SpecOrder

OrderIngest(frame, outs, startOk) ==
  /\ Len(pushed) < MaxOrdered
  /\ IngestHandled(frame, outs, startOk)

OrderCompletion(outcome) ==
  /\ state.completedFrames < MaxStall
  /\ CompletionHandled("completed", outcome)

\* The preroll outcomes tried: the sink accepts the first frames submitted
\* and refuses the next one; the start succeeds.
OrderOutcomes ==
  {outs \in PrerollOutcomes : \A i \in DOMAIN outs : outs[i] # "convertFail"}

NextOrder ==
  \/ \E frame \in Frames, outs \in OrderOutcomes : OrderIngest(frame, outs, TRUE)
  \/ \E outcome \in Outcomes : OrderCompletion(outcome)

SpecOrder == InitPlay /\ [][NextOrder]_vars

\* The frames of sub occur in full in the same order, from position from on;
\* a frame of sub may stand for the same position as the one before it.
RECURSIVE InOrder(_, _, _)
InOrder(sub, full, from) ==
  IF sub = <<>>
    THEN TRUE
    ELSE \E j \in from..Len(full) :
           /\ full[j] = Head(sub)
           /\ \A k \in from..(j - 1) : full[k] # Head(sub)
           /\ InOrder(Tail(sub), full, j)

\* The frames submitted to the sink, in the order of submission.
SubmittedFrames == [i \in 1..Len(sink.scheduled) |-> sink.scheduled[i].frame]

\* The frames that have left the queue, popped or evicted.
Gone == Len(pushed) - Len(state.queue)

\* C34: the queue is the tail of the frames ingested; a completion submits
\* the oldest frame queued or, with the queue empty, the frame ingested
\* last; an ingestion step submits the oldest frames queued, oldest first;
\* so the frames submitted occur in the frames ingested in the same order.
C34_SubmittedInIngestOrder ==
  /\ [](/\ state.queue = SubSeq(pushed, Gone + 1, Len(pushed))
        /\ InOrder(SubmittedFrames, pushed, 1))
  /\ [][Len(sink'.scheduled) > Len(sink.scheduled)
          => IF tick' # tick
               THEN /\ Len(sink'.scheduled) = Len(sink.scheduled) + 1
                    /\ sink'.scheduled[Len(sink'.scheduled)].frame
                         = IF state.queue # <<>> THEN pushed[Gone + 1]
                                                ELSE pushed[Len(pushed)]
               ELSE \A i \in 1..(Len(sink'.scheduled) - Len(sink.scheduled)) :
                      sink'.scheduled[Len(sink.scheduled) + i].frame
                        = pushed'[Len(pushed')
                                    - Min(Len(state.queue) + 1, kMaxQueuedFrames) + i]]_vars

\* A frame was evicted, and a completion then took the oldest frame left of
\* several queued and submitted it.
C34_Witness ==
  /\ Gone > popCount
  /\ tick.n > 0 /\ ~tick.wasEmpty /\ tick.ok
  /\ Len(state.queue) >= 2

\* ---------------------------------------------------------------------------
\* Frame sizes in the playback queue: both sources of main() side by side.
\* A run is either a stdin run (proc = NoProc, the stream loop) or a channel
\* run (the helper has passed setup and is about to open the channel).
\* ---------------------------------------------------------------------------

\* frameBuffer(reader.header->frame_size) filled by memcpy from
\* reader.slots + slotIndex * slot_stride; bytes beyond the slots read as 0.
SlotCopy(obj, idx, n) ==
  [i \in 1..n |->
     LET off == idx * obj.hdr.slot_stride + (i - 1)
         k == off \div frame_size
     IN IF k \in DOMAIN obj.slots /\ Len(obj.slots[k]) = frame_size
          THEN obj.slots[k][(off % frame_size) + 1]
          ELSE 0]

\* One pass of the FrameBus polling loop that finds a new sequence number.
ChannelPush(outs, startOk) ==
  /\ proc.helper = "decklink" /\ proc.pc = "poll"
  /\ ingest = "running"
  /\ ~gShouldExit
  /\ Len(pushed) < MaxIngest
  /\ \E hdr \in {objs[nameObj].hdr} :
       /\ Forwardable(hdr.seq, IF fwd.seqs = <<>> THEN 0
                               ELSE fwd.seqs[Len(fwd.seqs)])
       /\ \E frame \in {SlotCopy(objs[nameObj],
                                 ReadSlotIndex(hdr.seq, hdr.slot_count),
                                 hdr.frame_size)} :
            /\ \E w \in {maybeStartPlayback(
                           [state EXCEPT !.queue = push(@, frame)], sink,
                           outs, startOk)} :
                 /\ state' = w.state
                 /\ sink' = w.sink
                 /\ popCount' = popCount + w.pops
            /\ pushed' = Append(pushed, frame)
       /\ fwd' = [seqs |-> Append(fwd.seqs, hdr.seq), poll |-> "pushed"]
  /\ UNCHANGED <<gShouldExit, ingest, lastPop, tick>>
  /\ UNCHANGED <<ringVars, lifeVars, streamVars, conv, proc, pipe, mutex>>

\* The writer publishes one more frame into the attached channel: only the
\* sequence number moves, the descriptor geometry stays as created.
ChannelPublish ==
  /\ proc.helper = "decklink" /\ proc.pc = "poll"
  /\ objs[nameObj].hdr.seq < MaxWrites
  /\ objs' = [objs EXCEPT ![nameObj].hdr.seq = NextSeq(@)]
  /\ UNCHANGED <<nameObj, handles, lifeWrites, lifeOp>>
  /\ UNCHANGED <<ringVars, playVars, streamVars, auxVars>>

SizedStreamIteration(outs, startOk) ==
  /\ proc = NoProc
  /\ StreamIteration(outs, startOk)

InitSized ==
  \/ InitStream
  \/ /\ RingUnused /\ StreamUnused /\ PlayStart
     /\ \/ nameObj = 0 /\ objs = <<>>
        \/ \E obj \in SetupObjects, s \in 0..1 :
             /\ nameObj = 1
             /\ objs = <<[obj EXCEPT !.hdr.seq = s]>>
     /\ handles = <<>>
     /\ lifeWrites = 0
     /\ lifeOp = NoLifeOp
     /\ conv = NoConv /\ fwd = NoFwd /\ pipe = NoPipe /\ mutex = NoMutex
     /\ proc = [NoProc EXCEPT !.helper = "decklink", !.pc = "source",
                              !.ready = TRUE]

NextSized ==
  \/ \E outs \in PrerollOutcomes, startOk \in BOOLEAN :
       SizedStreamIteration(outs, startOk)
  \/ DeckLinkOpenSource
  \/ ChannelPublish
  \/ \E outs \in PrerollOutcomes, startOk \in BOOLEAN :
       ChannelPush(outs, startOk)

SpecSized == InitSized /\ [][NextSized]_vars

\* The record of the input that a loop pass started on.
RecordAt(at) == {j \in 1..Len(items) : items[j].start = at}

\* C35: every frame placed in the playback queue has exactly width*height*4
\* bytes; a streamed frame comes from a fully read record whose header width,
\* height and length all match, and a channel frame comes from a channel
\* whose descriptor width, height and frame_size match.
C35_QueuedFramesSized ==
  /\ \A i \in 1..Len(pushed) :
       Len(pushed[i]) = Geometry.width * Geometry.height * 4
  /\ \A i \in 1..Len(state.queue) :
       Len(state.queue[i]) = Geometry.width * Geometry.height * 4
  /\ \A i \in 1..Len(iters) :
       iters[i].verdict = "frame" =>
         \E j \in RecordAt(iters[i].at) :
           /\ items[j].rec.width = Geometry.width
           /\ items[j].rec.height = Geometry.height
           /\ items[j].rec.len = Geometry.width * Geometry.height * 4
           /\ RecordComplete(j)
           /\ iters[i].frame = items[j].rec.payload
  /\ (proc.helper = "decklink" /\ pushed # <<>>) =>
       /\ objs[nameObj].hdr.width = Geometry.width
       /\ objs[nameObj].hdr.height = Geometry.height
       /\ objs[nameObj].hdr.frame_size = Geometry.width * Geometry.height * 4

\* A stdin run that skipped a record of the wrong length, pushed the frame
\* after it and stopped on a payload cut short.
C35_Witness ==
  /\ proc = NoProc
  /\ Len(iters) = 3
  /\ iters[1].verdict = "mismatch"
  /\ iters[2].verdict = "frame"
  /\ exitReason = "payloadEof"
  /\ Len(pushed) = 1
  /\ Len(pushed[1]) = Geometry.width * Geometry.height * 4

\* ---------------------------------------------------------------------------
\* writeFrame with buffers of every length around frame_size.
\* ---------------------------------------------------------------------------

\* Buffers handed to writeFrame: of the descriptor's frame_size, empty,
\* one byte short and one byte long.
WriteBuffers ==
  Frames \cup {<<>>}
         \cup {SubSeq(f, 1, Len(f) - 1) : f \in Frames}
         \cup {Append(f, 17) : f \in Frames}

NextWrite ==
  \/ \E n \in LifeSlotCounts : CreateWriter(n)
  \/ \E h \in 1..MaxHandles, frame \in WriteBuffers, has_timestamp \in BOOLEAN :
       WriterWriteFrame(h, frame, has_timestamp)
  \/ \E h \in 1..MaxHandles : Close(h)

SpecWrite == InitLife /\ [][NextWrite]_vars

\* A writeFrame call has returned in this step.
WriteFrameReturned == lifeWrites' = lifeWrites + 1

\* C36: a writeFrame call either stores a buffer of exactly frame_size bytes
\* or fails with the size error and leaves every object as it was: sequence,
\* last-write timestamp and every slot byte.
C36_MismatchLeavesChannel ==
  [][WriteFrameReturned =>
       \E o \in {handles[lifeOp'.h].obj} :
         \/ /\ lifeOp'.op = "writeFailed" /\ lifeOp'.err = "size"
            /\ objs'[o].hdr.seq = objs[o].hdr.seq
            /\ objs'[o].hdr.last_write_ns = objs[o].hdr.last_write_ns
            /\ objs'[o].slots = objs[o].slots
            /\ objs' = objs
         \/ /\ lifeOp'.op = "writeFrame" /\ lifeOp'.err = "none"
            /\ Len(objs'[o].last) = objs[o].hdr.frame_size
            /\ objs'[o].hdr.seq = NextSeq(objs[o].hdr.seq)]_vars

\* A refused write after an accepted one: the channel still holds the
\* accepted write's sequence, timestamp and bytes.
C36_Witness ==
  /\ lifeOp.op = "writeFailed" /\ lifeOp.err = "size"
  /\ lifeWrites = 2
  /\ \E o \in {handles[lifeOp.h].obj} :
       /\ objs[o].hdr.seq = 1
       /\ objs[o].hdr.last_write_ns = 1
       /\ objs[o].last \in Frames

\* ---------------------------------------------------------------------------
\* decklink-helper.cpp: convertRgbaToOutputRows
\* ---------------------------------------------------------------------------

MaxConvWidth == 2    \* widest image converted
MaxConvHeight == 2   \* tallest image converted

\* BMDPixelFormat values the helper can be configured with.
PixelFormats ==
  {"bmdFormat8BitYUV", "bmdFormat10BitYUV", "bmdFormat8BitARGB",
   "bmdFormat8BitBGRA"}

ConvertPixel_LegalAlpha(px, pixelFormat, useLegalRange) ==
  LET r == IF useLegalRange THEN mapToLegalRange(px[1]) ELSE px[1]
      g == IF useLegalRange THEN mapToLegalRange(px[2]) ELSE px[2]
      b == IF useLegalRange THEN mapToLegalRange(px[3]) ELSE px[3]
      a == IF useLegalRange THEN mapToLegalRange(px[4]) ELSE px[4]
  IN IF pixelFormat = "bmdFormat8BitARGB" THEN <<a, r, g, b>>
     ELSE IF pixelFormat = "bmdFormat8BitBGRA" THEN <<b, g, r, a>>
     ELSE <<>>

\* The switch of the inner loop: the four bytes stored for one source pixel,
\* <<>> when the format reaches the default branch.
ConvertPixel(px, pixelFormat, useLegalRange) ==
  LET r == IF useLegalRange THEN mapToLegalRange(px[1]) ELSE px[1]
      g == IF useLegalRange THEN mapToLegalRange(px[2]) ELSE px[2]
      b == IF useLegalRange THEN mapToLegalRange(px[3]) ELSE px[3]
      a == px[4]
  IN IF pixelFormat = "bmdFormat8BitARGB" THEN <<a, r, g, b>>
     ELSE IF pixelFormat = "bmdFormat8BitBGRA" THEN <<b, g, r, a>>
     ELSE <<>>

\* convertRgbaToOutputRows: src holds width*4 bytes per row, dst holds
\* dstRowBytes per row; the first pixel of an unsupported format returns
\* false with dst untouched, and an image without pixels returns true.
convertRgbaToOutputRows(src, dst, width, height, dstRowBytes, pixelFormat, useLegalRange) ==
  IF width > 0 /\ height > 0
     /\ pixelFormat \notin {"bmdFormat8BitARGB", "bmdFormat8BitBGRA"}
    THEN [ok |-> FALSE, dst |-> dst]
    ELSE [ok |-> TRUE,
          dst |-> [k \in 1..Len(dst) |->
                     LET y == (k - 1) \div dstRowBytes
                         c == (k - 1) % dstRowBytes
                         x == c \div 4
                         o == y * (width * 4) + x * 4
                     IN IF y < height /\ x < width
                          THEN ConvertPixel(SubSeq(src, o + 1, o + 4),
                                            pixelFormat,
                                            useLegalRange)[(c % 4) + 1]
                          ELSE dst[k]]]

\* A source pixel with four different channel values; over v in Uint8 every
\* value occurs in every channel.
PixelOf(v) == <<v, (v + 85) % (2 ^ 8), (v + 170) % (2 ^ 8), (2 ^ 8 - 1) - v>>

\* A width x height RGBA image whose pixels are all different.
ImageOf(v, width, height) ==
  [k \in 1..(width * height * 4) |->
     PixelOf((v + 7 * ((k - 1) \div 4)) % (2 ^ 8))[((k - 1) % 4) + 1]]

\* The output frame buffer as handed out by the driver, before conversion.
BlankRows(height, dstRowBytes) == [k \in 1..(height * dstRowBytes) |-> 99]

\* The arguments of one call: image, blank output rows and row pitch.
ConvertArgs(v, width, height, pad, pixelFormat, useLegalRange) ==
  [src |-> ImageOf(v, width, height),
   dst |-> BlankRows(height, width * 4 + pad),
   width |-> width, height |-> height, dstRowBytes |-> width * 4 + pad,
   pixelFormat |-> pixelFormat, useLegalRange |-> useLegalRange]

InitConvert ==
  /\ RingUnused /\ LifeStart /\ PlayStart /\ StreamUnused
  /\ proc = NoProc /\ fwd = NoFwd /\ pipe = NoPipe /\ mutex = NoMutex
  /\ \E v \in Uint8, width \in 1..MaxConvWidth, height \in 1..MaxConvHeight,
        pad \in {0, 4}, pixelFormat \in PixelFormats,
        useLegalRange \in BOOLEAN :
       conv = [op |-> "convertArgs",
               in |-> ConvertArgs(v, width, height, pad, pixelFormat,
                                  useLegalRange),
               out |-> [ok |-> FALSE, dst |-> <<>>]]

CallConvert ==
  /\ conv.op = "convertArgs"
  /\ conv' = [conv EXCEPT
                !.op = "convert",
                !.out = convertRgbaToOutputRows(
                          conv.in.src, conv.in.dst, conv.in.width,
                          conv.in.height, conv.in.dstRowBytes,
                          conv.in.pixelFormat, conv.in.useLegalRange)]
  /\ UNCHANGED <<proc, fwd, pipe, mutex>>
  /\ UNCHANGED notAux

NextConvert == CallConvert

SpecConvert == InitConvert /\ [][NextConvert]_vars

\* Source pixel (x, y) of a conversion's input and the four bytes written
\* for it.
SrcPixel(in, x, y) ==
  SubSeq(in.src, (y * in.width + x) * 4 + 1, (y * in.width + x) * 4 + 4)

DstPixel(in, out, x, y) ==
  SubSeq(out.dst, y * in.dstRowBytes + x * 4 + 1, y * in.dstRowBytes + x * 4 + 4)

\* C37: for ARGB and BGRA the conversion succeeds and every output pixel is a
\* permutation of its source pixel, (a,r,g,b) or (b,g,r,a); in full range
\* all four values are the source's, in legal range r, g and b are the
\* mapToLegalRange values and alpha is the source's.
C37_ChannelPermutation ==
  (conv.op = "convert"
   /\ conv.in.pixelFormat \in {"bmdFormat8BitARGB", "bmdFormat8BitBGRA"})
    => /\ conv.out.ok
       /\ Len(conv.out.dst) = conv.in.height * conv.in.dstRowBytes
       /\ \A x \in 0..(conv.in.width - 1), y \in 0..(conv.in.height - 1) :
            \E p \in {SrcPixel(conv.in, x, y)},
               d \in {DstPixel(conv.in, conv.out, x, y)} :
              \E r \in {IF conv.in.useLegalRange
                          THEN Clamp(Nearest(p[1] * 219, 255) + 16, 16, 235)
                          ELSE p[1]},
                 g \in {IF conv.in.useLegalRange
                          THEN Clamp(Nearest(p[2] * 219, 255) + 16, 16, 235)
                          ELSE p[2]},
                 b \in {IF conv.in.useLegalRange
                          THEN Clamp(Nearest(p[3] * 219, 255) + 16, 16, 235)
                          ELSE p[3]} :
                IF conv.in.pixelFormat = "bmdFormat8BitARGB"
                  THEN d = <<p[4], r, g, b>>
                  ELSE d = <<b, g, r, p[4]>>

\* A legal-range BGRA conversion of a two-row image with row padding whose
\* first pixel has alpha 255 and red 0.
C37_Witness ==
  /\ conv.op = "convert"
  /\ conv.in.pixelFormat = "bmdFormat8BitBGRA"
  /\ conv.in.useLegalRange
  /\ conv.in.height = 2 /\ conv.in.dstRowBytes > conv.in.width * 4
  /\ SrcPixel(conv.in, 0, 0) = <<0, 85, 170, 255>>
  /\ DstPixel(conv.in, conv.out, 0, 0) = <<162, 89, 16, 255>>

\* ---------------------------------------------------------------------------
\* scheduleFrame with the outcome of the conversion computed from the
\* configured pixel format.
\* ---------------------------------------------------------------------------

\* state.pixelFormat values that take the RGBA branch of scheduleFrame: the
\* two the converter knows and one BMDPixelFormat it does not.
RgbaFormats ==
  {"bmdFormat8BitARGB", "bmdFormat8BitBGRA", "bmdFormat10BitRGB"}

\* scheduleFrame up to the submit: false when convertRgbaToOutputRows
\* returns false.
ConversionOutcome(pixelFormat, frameData) ==
  IF convertRgbaToOutputRows(frameData,
                             BlankRows(Geometry.height, Geometry.width * 4),
                             Geometry.width, Geometry.height,
                             Geometry.width * 4, pixelFormat, FALSE).ok
    THEN "ok"
    ELSE "convertFail"

\* Outcomes of the preroll submits for a frame under the configured format.
ConvertedOutcomes(pixelFormat, frameData) ==
  {outs \in PrerollOutcomes :
     \A i \in DOMAIN outs :
       (outs[i] = "convertFail")
         <=> (ConversionOutcome(pixelFormat, frameData) = "convertFail")}

ConvertIngest(frame, startOk) ==
  /\ conv.op = "pixelFormat"
  /\ Len(pushed) < MaxIngest
  /\ \E outs \in ConvertedOutcomes(conv.in, frame) :
       IngestHandled(frame, outs, startOk)

ConvertCompletion(result, submit) ==
  /\ conv.op = "pixelFormat"
  /\ state.completedFrames < MaxCompletions
  /\ \E r \in {pop(state.queue)} :
     \E frameData \in {IF r.ok THEN r.out ELSE UnderrunFrame(state)} :
     \E c \in {IF frameData = <<>> THEN "ok"
               ELSE ConversionOutcome(conv.in, frameData)} :
       CompletionHandled(result, IF c = "ok" THEN submit ELSE c)

InitConvertPlay ==
  /\ PlayStart /\ RingUnused /\ LifeStart /\ StreamUnused
  /\ proc = NoProc /\ fwd = NoFwd /\ pipe = NoPipe /\ mutex = NoMutex
  /\ \E pixelFormat \in RgbaFormats :
       conv = [op |-> "pixelFormat", in |-> pixelFormat, out |-> 0]

NextConvertPlay ==
  \/ \E frame \in Frames, startOk \in BOOLEAN : ConvertIngest(frame, startOk)
  \/ \E result \in Results, submit \in {"ok", "submitFail"} :
       ConvertCompletion(result, submit)

SpecConvertPlay == InitConvertPlay /\ [][NextConvertPlay]_vars

\* The configured format is one the converter returns false for.
FormatUnsupported ==
  conv.op = "pixelFormat"
  /\ conv.in \notin {"bmdFormat8BitARGB", "bmdFormat8BitBGRA"}

IngestStep ==
  \E frame \in Frames, startOk \in BOOLEAN : ConvertIngest(frame, startOk)

\* C38: with an unsupported target format every frame handed to
\* scheduleFrame is dropped: the step that ingests it takes it from the
\* queue, submits nothing to the sink, leaves nextFrameTime, prerollScheduled
\* and started as they were and does not stop the process or the ingestion;
\* the next frame is then ingested and tried in the same way.
C38_ConvertFailureSkipsFrame ==
  /\ [][(FormatUnsupported /\ pushed' # pushed)
          => /\ sink' = sink
             /\ state'.nextFrameTime = state.nextFrameTime
             /\ state'.prerollScheduled = state.prerollScheduled
             /\ state'.started = state.started
             /\ state'.queue = Tail(Append(state.queue,
                                           pushed'[Len(pushed')]))
             /\ state'.lastFrame = Head(Append(state.queue,
                                               pushed'[Len(pushed')]))
             /\ popCount' = popCount + 1
             /\ ~gShouldExit' /\ ingest' = "running"]_vars
  /\ []((FormatUnsupported /\ Len(pushed) < MaxIngest) => ENABLED IngestStep)
  /\ [](FormatUnsupported
          => /\ sink.scheduled = <<>> /\ sink.inFlight = 0
             /\ state.nextFrameTime = 0
             /\ ~gShouldExit /\ ingest = "running")

\* Two frames have been ingested and dropped under the unsupported format.
C38_Witness ==
  /\ FormatUnsupported
  /\ Len(pushed) = 2 /\ popCount = 2
  /\ state.queue = <<>>
  /\ state.lastFrame = pushed[2]
  /\ sink.scheduled = <<>>
  /\ state.nextFrameTime = 0
  /\ ~gShouldExit /\ ingest = "running"

\* ---------------------------------------------------------------------------
\* decklink-helper.cpp: colorspace tag resolution
\* ---------------------------------------------------------------------------

\* BMDColorspace values; "bmdColorspaceUnknown" is also the "auto" override.
Colorspaces == {"bmdColorspaceRec601", "bmdColorspaceRec709",
                "bmdColorspaceRec2020"}

\* The colorspace bits of BMDDisplayModeFlags, as the set of tags flagged.
ColorspaceFlagSets == SUBSET Colorspaces

\* config.height values (main rejects height <= 0).
ModeHeights == {1, 480, 486, 575, 576, 577, 720, 1080, 2160}

selectColorspaceFromFlags(flags, height) ==
  IF "bmdColorspaceRec2020" \in flags THEN "bmdColorspaceRec2020"
  ELSE IF "bmdColorspaceRec709" \in flags THEN "bmdColorspaceRec709"
  ELSE IF "bmdColorspaceRec601" \in flags THEN "bmdColorspaceRec601"
  ELSE "bmdColorspaceUnknown"

fallbackColorspaceFromHeight(height) ==
  IF height > 0 /\ height <= 576
    THEN "bmdColorspaceRec601"
    ELSE "bmdColorspaceRec709"

ResolveColorspace_AlwaysOverride(colorspaceOverride, displayModeFlags, height) ==
  LET fromFlags == selectColorspaceFromFlags(displayModeFlags, height)
      autoColorspace == IF fromFlags = "bmdColorspaceUnknown"
                          THEN fallbackColorspaceFromHeight(height)
                          ELSE fromFlags
  IN IF colorspaceOverride # "bmdColorspaceUnknown"
       THEN colorspaceOverride
       ELSE autoColorspace

\* main: state.colorspace from the override, the display mode flags and the
\* configured height.
ResolveColorspace(colorspaceOverride, displayModeFlags, height) ==
  LET fromFlags == selectColorspaceFromFlags(displayModeFlags, height)
      autoColorspace == IF fromFlags = "bmdColorspaceUnknown"
                          THEN fallbackColorspaceFromHeight(height)
                          ELSE fromFlags
  IN IF colorspaceOverride # "bmdColorspaceUnknown"
       THEN IF colorspaceOverride = "bmdColorspaceRec2020"
               /\ "bmdColorspaceRec2020" \notin displayModeFlags
              THEN autoColorspace
              ELSE colorspaceOverride
       ELSE autoColorspace

InitColorspace ==
  /\ PlayStart /\ RingUnused /\ LifeStart /\ StreamUnused
  /\ proc = NoProc /\ fwd = NoFwd /\ pipe = NoPipe /\ mutex = NoMutex
  /\ \E colorspaceOverride \in Colorspaces \cup {"bmdColorspaceUnknown"},
        displayModeFlags \in ColorspaceFlagSets, height \in ModeHeights :
       conv = [op |-> "colorspaceArgs",
               in |-> [colorspaceOverride |-> colorspaceOverride,
                       displayModeFlags |-> displayModeFlags,
                       height |-> height],
               out |-> "bmdColorspaceUnknown"]

SetColorspace ==
  /\ conv.op = "colorspaceArgs"
  /\ conv' = [conv EXCEPT
                !.op = "colorspace",
                !.out = ResolveColorspace(conv.in.colorspaceOverride,
                                          conv.in.displayModeFlags,
                                          conv.in.height)]
  /\ UNCHANGED <<proc, fwd, pipe, mutex>>
  /\ UNCHANGED notAux

NextColorspace == SetColorspace

SpecColorspace == InitColorspace /\ [][NextColorspace]_vars

\* The override is one the selected mode can carry: Rec601 and Rec709 on any
\* mode, Rec2020 only on a mode flagged for it.
OverrideSupported(in) ==
  /\ in.colorspaceOverride \in Colorspaces
  /\ in.colorspaceOverride = "bmdColorspaceRec2020"
       => "bmdColorspaceRec2020" \in in.displayModeFlags

UINT32_MAX == <<255, 255, 255, 255>>

Uint32Bytes == Len(UINT32_MAX)
Uint64Bytes == 2 * Len(UINT32_MAX)

\* Byte i of a number below 2^31.
ByteAt(n, i) ==
  IF i <= Uint32Bytes THEN (n \div (2 ^ (8 * (i - 1)))) % (2 ^ 8) ELSE 0

\* uint32_t value n (below 2^31).
U32(n) == [i \in 1..Uint32Bytes |-> ByteAt(n, i)]

\* static_cast to a type of k bytes: zero extension or truncation.
Cast(a, k) == [i \in 1..k |-> IF i <= Len(a) THEN a[i] ELSE 0]

RECURSIVE ColumnSum(_, _, _, _)
\* Sum of a[i] * b[j - i + 1] over the byte pairs of column j, from i on.
ColumnSum(a, b, j, i) ==
  IF i > j \/ i > Len(a)
    THEN 0
    ELSE (IF j - i + 1 <= Len(b) THEN a[i] * b[j - i + 1] ELSE 0)
         + ColumnSum(a, b, j, i + 1)

RECURSIVE Carried(_, _, _, _)
\* Carry propagation over the columns; the carry out of the last byte is
\* dropped (arithmetic modulo 2^(8k)).
Carried(cols, i, carry, acc) ==
  IF i > Len(cols)
    THEN acc
    ELSE Carried(cols, i + 1, (cols[i] + carry) \div (2 ^ 8),
                 Append(acc, (cols[i] + carry) % (2 ^ 8)))

\* a * b and a + b in k-byte unsigned arithmetic.
Mul(a, b, k) == Carried([j \in 1..k |-> ColumnSum(a, b, j, 1)], 1, 0, <<>>)

Add(a, b, k) == Carried([j \in 1..k |-> Cast(a, k)[j] + Cast(b, k)[j]], 1, 0, <<>>)

\* x > UINT32_MAX for a wider x.
ExceedsUint32(x) == \E i \in (Uint32Bytes + 1)..Len(x) : x[i] # 0

IsZero(x) == \A i \in 1..Len(x) : x[i] = 0

\* slot_count < 2
BelowTwo(x) == x = U32(0) \/ x = U32(1)

\* CreateWriter from the option checks to the size of the mapping
\* (size_t of eight bytes, so total_size_64 > SIZE_MAX never holds).
CreateWriterSizes(width, height, slotCount) ==
  IF IsZero(width) THEN [err |-> "Invalid width"]
  ELSE IF IsZero(height) THEN [err |-> "Invalid height"]
  ELSE IF BelowTwo(slotCount) THEN [err |-> "slotCount must be >= 2"]
  ELSE LET frame_size_64 ==
             Mul(Mul(Cast(width, Uint64Bytes), Cast(height, Uint64Bytes),
                     Uint64Bytes),
                 Cast(U32(BytesPerPixel), Uint64Bytes), Uint64Bytes)
       IN IF ExceedsUint32(frame_size_64)
            THEN [err |-> "Frame size too large"]
            ELSE LET fs == Cast(frame_size_64, Uint32Bytes)
                     slot_stride == fs
                     total_size_64 ==
                       Add(Cast(U32(FRAMEBUS_HEADER_SIZE), Uint64Bytes),
                           Mul(Cast(slot_stride, Uint64Bytes),
                               Cast(slotCount, Uint64Bytes), Uint64Bytes),
                           Uint64Bytes)
                 IN [err |-> "none", frame_size |-> fs,
                     slot_stride |-> slot_stride,
                     total_size |-> total_size_64]

\* uint32_t option values: zero, small, video sizes, the powers of two around
\* the limits and the largest value.
OptionValues ==
  {U32(0), U32(1), U32(2), U32(3), U32(1080), U32(1920),
   U32(2 ^ 15 - 1), U32(2 ^ 15), U32(2 ^ 16), U32(2 ^ 30),
   <<0, 0, 0, 128>>, <<1, 0, 0, 128>>, UINT32_MAX}

SlotCountValues == {U32(1), U32(2), U32(3), UINT32_MAX}

InitCreate ==
  /\ PlayStart /\ RingUnused /\ LifeStart /\ StreamUnused
  /\ proc = NoProc /\ fwd = NoFwd /\ pipe = NoPipe /\ mutex = NoMutex
  /\ \E width \in OptionValues, height \in OptionValues,
        slotCount \in SlotCountValues :
       conv = [op |-> "createWriterArgs",
               in |-> [width |-> width, height |-> height,
                       slot_count |-> slotCount],
               out |-> [err |-> "pending"]]

CreateWriterCall ==
  /\ conv.op = "createWriterArgs"
  /\ conv' = [conv EXCEPT
                !.op = "createWriter",
                !.out = CreateWriterSizes(conv.in.width, conv.in.height,
                                          conv.in.slot_count)]
  /\ UNCHANGED <<proc, fwd, pipe, mutex>>
  /\ UNCHANGED notAux

NextCreate == CreateWriterCall

SpecCreate == InitCreate /\ [][NextCreate]_vars

\* Enough bytes for width * height * 4 and for 128 + slot_count * slot_stride
\* without any carry dropped.
WideBytes == 3 * Len(UINT32_MAX)

\* width * height * 4 as a number, not reduced.
TrueFrameSize(in) ==
  Mul(Mul(Cast(in.width, WideBytes), Cast(in.height, WideBytes), WideBytes),
      Cast(U32(4), WideBytes), WideBytes)

\* C40: a createWriter call with non-zero width and height whose
\* width * height * 4 exceeds 2^32 - 1 is rejected, and an accepted call has
\* frame_size = slot_stride = width * height * 4 and a backing size of
\* 128 + slot_count * slot_stride, all as exact numbers.
C40_AcceptedSizesExact ==
  (conv.op = "createWriter" /\ conv.out.err = "none")
    => /\ ~ExceedsUint32(TrueFrameSize(conv.in))
       /\ Cast(conv.out.frame_size, WideBytes) = TrueFrameSize(conv.in)
       /\ conv.out.slot_stride = conv.out.frame_size
       /\ Cast(conv.out.total_size, WideBytes)
            = Add(Cast(U32(128), WideBytes),
                  Mul(Cast(conv.in.slot_count, WideBytes),
                      Cast(conv.out.slot_stride, WideBytes), WideBytes),
                  WideBytes)

====
